---- MODULE Spec2Model ----
(***************************************************************************)
(* SmartStudy AI: the quiz-text parser (parse_quiz_for_display) and the    *)
(* quiz scorer (display_quiz_results) of src/app.py, with the learning     *)
(* progress store of src/memory.py that receives the score.                *)
(*                                                                         *)
(* A Python str is modelled as a sequence of one-character strings, so     *)
(* that lowercasing, substring tests, whitespace splitting, slicing and    *)
(* the regular expressions act on characters as they do in the code.       *)
(***************************************************************************)
EXTENDS Integers, Sequences, FiniteSets, TLC

VARIABLES
    blocks,               \* the pieces the quiz text was written from
    current_topic,        \* st.session_state.current_topic
    stored_quiz,          \* st.session_state.stored_quiz: the raw quiz text
    extracted,            \* quiz_data of parse_quiz_for_display before its fallback test
    quiz_data,            \* the dict returned by parse_quiz_for_display
    quiz_answers,         \* st.session_state.quiz_answers: key -> stored answer
    quiz_submitted,       \* st.session_state.quiz_submitted
    quiz_saved_to_memory, \* st.session_state.quiz_saved_to_memory
    report,               \* the locals of display_quiz_results after scoring
    quiz_scores,          \* memory.learning_progress["quiz_scores"]
    weak_areas,           \* memory.learning_progress["weak_areas"]
    topics_explained,     \* memory.learning_progress["topics_explained"]
    strengths,            \* memory.learning_progress["strengths"]
    revision_suggestions, \* memory.learning_progress["revision_suggestions"]
    explanation_generated, \* st.session_state.explanation_generated
    quiz_generated,       \* st.session_state.quiz_generated
    temp_file,            \* temp.pdf and temp.docx in the working directory of the process
    loads,                \* the calls of load_document, one for each session
    peer,                 \* the session state of a second browser session
    fault,                \* the exception that escaped a handler ("" when none)
    pc                    \* where the session is in the quiz flow

vars ==
    <<blocks, current_topic, stored_quiz, extracted, quiz_data, quiz_answers,
      quiz_submitted, quiz_saved_to_memory, report, quiz_scores, weak_areas,
      topics_explained, strengths, revision_suggestions,
      explanation_generated, quiz_generated, temp_file, loads, peer, fault, pc>>

\* the lists of the learning progress that only the explanation and revision
\* chains write; the specifications of the quiz flow do not follow them
progress_lists == <<topics_explained, strengths, revision_suggestions>>

\* the temporary files and the calls of load_document
document_loads == <<temp_file, loads>>

\* the browser sessions the process serves, each running its script in a
\* thread of its own
Sessions == {1, 2}

\* the names load_document writes to, in the working directory of the process
TempNames == {"temp.pdf", "temp.docx"}

\* a name under which no file exists
Absent == [exists |-> FALSE, pages |-> <<>>, readable |-> FALSE]

NoTempFile == [name \in TempNames |-> Absent]

\* Python None, which is no str (its one element is not one character)
None == <<"None">>

\* no file uploaded
NoUpload == [name |-> <<>>, pages |-> <<>>, readable |-> FALSE]

\* no session has called load_document
NoLoads ==
    [s \in Sessions |-> [pc |-> "idle", file |-> NoUpload, temp |-> "", documents |-> <<>>,
                         result |-> None]]

(***************************************************************************)
(* Python str operations                                                   *)
(***************************************************************************)
UpperLetters ==
    <<"A","B","C","D","E","F","G","H","I","J","K","L","M","N","O","P","Q","R","S","T",
      "U","V","W","X","Y","Z">>

LowerLetters ==
    <<"a","b","c","d","e","f","g","h","i","j","k","l","m","n","o","p","q","r","s","t",
      "u","v","w","x","y","z">>

DigitChars == <<"0","1","2","3","4","5","6","7","8","9">>

\* str.isspace() characters, also the regular-expression class \s
Whitespace == {" ", "\t", "\n", "\r", "\f"}

\* the regular-expression class \d
Digits == {DigitChars[i] : i \in 1..10}

\* one character of str.lower()
lower_char(c) ==
    IF \E i \in 1..26 : UpperLetters[i] = c
    THEN LowerLetters[CHOOSE i \in 1..26 : UpperLetters[i] = c]
    ELSE c

\* str.lower()
lower(s) == [i \in 1..Len(s) |-> lower_char(s[i])]

\* Python "a in b" on two str: a occurs in b as a contiguous run
In(a, b) ==
    \E off \in 0..(Len(b) - Len(a)) : \A j \in 1..Len(a) : b[off + j] = a[j]

\* s[:n]
Prefix(s, n) == SubSeq(s, 1, IF Len(s) < n THEN Len(s) ELSE n)

\* length of the longest run of characters of s from position p on that
\* are (inside = TRUE) or are not (inside = FALSE) in the set cs
RunLength(s, p, cs, inside) ==
    CHOOSE n \in 0..(Len(s) - p + 1) :
        /\ \A j \in 0..(n - 1) : (s[p + j] \in cs) = inside
        /\ (p + n <= Len(s)) => ((s[p + n] \in cs) # inside)

\* str.strip()
strip(s) ==
    LET lead == RunLength(s, 1, Whitespace, TRUE)
        rest == SubSeq(s, lead + 1, Len(s))
        last == IF rest = <<>> THEN 0
                ELSE CHOOSE k \in 1..Len(rest) :
                        /\ rest[k] \notin Whitespace
                        /\ \A m \in (k + 1)..Len(rest) : rest[m] \in Whitespace
    IN  SubSeq(rest, 1, last)

\* str.split() with no separator: the maximal runs of non-whitespace
RECURSIVE split(_)
split(s) ==
    LET lead == RunLength(s, 1, Whitespace, TRUE)
        word == RunLength(s, lead + 1, Whitespace, FALSE)
    IN  IF word = 0 THEN <<>>
        ELSE <<SubSeq(s, lead + 1, lead + word)>>
                 \o split(SubSeq(s, lead + word + 1, Len(s)))

\* str(n) of a non-negative int, as in an f-string
RECURSIVE str(_)
str(n) ==
    IF n < 10 THEN <<DigitChars[n + 1]>>
    ELSE str(n \div 10) \o <<DigitChars[(n % 10) + 1]>>

\* dict.get(key, default)
Get(d, key, default) == IF key \in DOMAIN d THEN d[key] ELSE default

\* len() of a dict
DictLen(d) == Cardinality(DOMAIN d)

\* the dict d after d[key] = value
DictSet(d, key, value) ==
    [k \in (DOMAIN d) \cup {key} |-> IF k = key THEN value ELSE d[k]]

\* the empty dict {}
EmptyDict == [k \in {} |-> <<>>]

(***************************************************************************)
(* create_fallback_quiz_data: the canned quiz                              *)
(***************************************************************************)
FallbackMcq1Question ==
    <<"1","."," ","W","h","a","t"," ","i","s"," ","t","h","e"," ","m","a","i","n"," ","p",
      "u","r","p","o","s","e"," ","o","f"," ","a"," ","C","V","?">>

FallbackMcq1OptionA ==
    <<"T","o"," ","l","i","s","t"," ","p","e","r","s","o","n","a","l"," ","h","o","b","b",
      "i","e","s">>

FallbackMcq1OptionB ==
    <<"T","o"," ","s","h","o","w","c","a","s","e"," ","w","o","r","k"," ","e","x","p","e",
      "r","i","e","n","c","e"," ","a","n","d"," ","q","u","a","l","i","f","i","c","a","t",
      "i","o","n","s">>

FallbackMcq1OptionC ==
    <<"T","o"," ","w","r","i","t","e"," ","a"," ","s","t","o","r","y">>

FallbackMcq1OptionD ==
    <<"T","o"," ","m","a","k","e"," ","f","r","i","e","n","d","s">>

FallbackMcq2Question ==
    <<"2","."," ","W","h","a","t"," ","s","h","o","u","l","d"," ","b","e"," ","i","n","c",
      "l","u","d","e","d"," ","i","n"," ","a"," ","p","r","o","f","e","s","s","i","o","n",
      "a","l"," ","C","V","?">>

FallbackMcq2OptionA ==
    <<"O","n","l","y"," ","p","e","r","s","o","n","a","l"," ","i","n","f","o","r","m","a",
      "t","i","o","n">>

FallbackMcq2OptionB ==
    <<"W","o","r","k"," ","e","x","p","e","r","i","e","n","c","e",","," ","e","d","u","c",
      "a","t","i","o","n",","," ","a","n","d"," ","s","k","i","l","l","s">>

FallbackMcq2OptionC ==
    <<"O","n","l","y"," ","e","d","u","c","a","t","i","o","n">>

FallbackMcq2OptionD ==
    <<"O","n","l","y"," ","s","k","i","l","l","s">>

FallbackMcq3Question ==
    <<"3","."," ","W","h","a","t"," ","l","a","n","g","u","a","g","e"," ","w","a","s"," ",
      "t","h","e"," ","C","V"," ","w","r","i","t","t","e","n"," ","i","n","?">>

FallbackMcq3OptionA ==
    <<"E","n","g","l","i","s","h">>

FallbackMcq3OptionB ==
    <<"F","r","e","n","c","h">>

FallbackMcq3OptionC ==
    <<"D","u","t","c","h">>

FallbackMcq3OptionD ==
    <<"G","e","r","m","a","n">>

FallbackBlank1Question ==
    <<"1","."," ","A"," ","C","V"," ","i","s"," ","a","l","s","o"," ","k","n","o","w","n",
      " ","a","s"," ","a"," ","_","_","_","_","_","_",".">>

FallbackBlank1Answer ==
    <<"r","e","s","u","m","e">>

FallbackBlank2Question ==
    <<"2","."," ","B","l","a","l"," ","M","a","s","r","o","o","r"," ","w","o","r","k","e",
      "d"," ","a","s"," ","a"," ","k","i","t","c","h","e","n"," ","_","_","_","_","_","_",
      " ","i","n"," ","r","e","s","t","a","u","r","a","n","t","s",".">>

FallbackBlank2Answer ==
    <<"a","s","s","i","s","t","a","n","t">>

FallbackShort1Question ==
    <<"1","."," ","W","h","a","t"," ","t","y","p","e"," ","o","f"," ","w","o","r","k"," ",
      "e","x","p","e","r","i","e","n","c","e"," ","d","o","e","s"," ","B","l","a","l"," ",
      "M","a","s","r","o","o","r"," ","h","a","v","e","?">>

FallbackShort1Expected ==
    <<"H","e"," ","h","a","s"," ","e","x","p","e","r","i","e","n","c","e"," ","w","o","r",
      "k","i","n","g"," ","i","n"," ","r","e","s","t","a","u","r","a","n","t","s"," ","a",
      "s"," ","a"," ","k","i","t","c","h","e","n"," ","a","s","s","i","s","t","a","n","t",
      ","," ","w","i","t","h"," ","c","e","r","t","i","f","i","c","a","t","i","o","n","s",
      " ","i","n"," ","c","u","l","i","n","a","r","y"," ","a","r","t","s",".">>

FallbackShort2Question ==
    <<"2","."," ","W","h","a","t"," ","c","e","r","t","i","f","i","c","a","t","i","o","n",
      "s"," ","d","o","e","s"," ","B","l","a","l"," ","M","a","s","r","o","o","r"," ","h",
      "a","v","e","?">>

FallbackShort2Expected ==
    <<"H","e"," ","h","a","s"," ","c","e","r","t","i","f","i","c","a","t","i","o","n","s",
      " ","i","n"," ","c","h","o","c","o","l","a","t","e"," ","m","a","k","i","n","g",",",
      " ","p","r","a","l","i","n","e"," ","m","a","k","i","n","g",","," ","b","r","e","a",
      "d"," ","b","a","k","i","n","g",","," ","a","n","d"," ","p","a","s","t","r","y"," ",
      "m","a","k","i","n","g"," ","f","r","o","m"," ","C","e","n","t","r","u","m"," ","v",
      "o","o","r"," ","V","o","l","w","a","s","s","e","n","e","n","o","n","d","e","r","w",
      "i","j","s"," ","G","e","n","t",".">>

FallbackRawText ==
    <<"F","a","l","l","b","a","c","k"," ","q","u","i","z"," ","g","e","n","e","r","a","t",
      "e","d"," ","d","u","e"," ","t","o"," ","p","a","r","s","i","n","g"," ","i","s","s",
      "u","e","s">>

\* "short_answer" holds a str, a dict or a list in the code; type names the
\* Python type and items its entries ("" has none, a dict is one entry)
ShortStr == [type |-> "str", items |-> <<>>]

ShortDict(question, expected) ==
    [type |-> "dict", items |-> <<[question |-> question, expected |-> expected]>>]

ShortList(entries) == [type |-> "list", items |-> entries]

\* Python truth value of quiz_data["short_answer"]
ShortTruthy(short_answer) == short_answer.items # <<>>

create_fallback_quiz_data ==
    [mcq_questions |-> <<
        [question |-> FallbackMcq1Question,
         options |-> <<FallbackMcq1OptionA, FallbackMcq1OptionB,
                       FallbackMcq1OptionC, FallbackMcq1OptionD>>,
         correct |-> <<"B">>],
        [question |-> FallbackMcq2Question,
         options |-> <<FallbackMcq2OptionA, FallbackMcq2OptionB,
                       FallbackMcq2OptionC, FallbackMcq2OptionD>>,
         correct |-> <<"B">>],
        [question |-> FallbackMcq3Question,
         options |-> <<FallbackMcq3OptionA, FallbackMcq3OptionB,
                       FallbackMcq3OptionC, FallbackMcq3OptionD>>,
         correct |-> <<"C">>] >>,
     fill_blanks |-> <<
        [question |-> FallbackBlank1Question, answer |-> FallbackBlank1Answer],
        [question |-> FallbackBlank2Question, answer |-> FallbackBlank2Answer] >>,
     short_answer |-> ShortList(<<
        [question |-> FallbackShort1Question, expected |-> FallbackShort1Expected],
        [question |-> FallbackShort2Question, expected |-> FallbackShort2Expected] >>),
     raw_text |-> FallbackRawText]

(***************************************************************************)
(* display_quiz_results: the scoring pass                                  *)
(***************************************************************************)
\* the answer keys f"mcq_{i}", f"blank_{i}", f"short_answer_{i}", "short_answer"
McqKey(i) == <<"m","c","q","_">> \o str(i)

BlankKey(i) == <<"b","l","a","n","k","_">> \o str(i)

ShortAnswerKey == <<"s","h","o","r","t","_","a","n","s","w","e","r">>

ShortKey(i) == ShortAnswerKey \o <<"_">> \o str(i)

\* question[:50]
PrefixLen == 50

\* f"Question {n}: {question[:50]}..."
WeakArea(n, question) ==
    <<"Q","u","e","s","t","i","o","n"," ">> \o str(n) \o <<":"," ">>
        \o Prefix(question, PrefixLen) \o <<".",".",".">>

\* user_answer == mcq["correct"]
mcq_is_correct_nocase(user_answer, correct) == lower(user_answer) = lower(correct)

mcq_is_correct(user_answer, correct) == user_answer = correct

\* fill in the blank: the "simple similarity check" on the lowercased strings
blank_is_correct_onedir(answer, expected) ==
    LET user_answer == lower(answer)
        correct_answer == lower(expected)
    IN  In(correct_answer, user_answer)

blank_is_correct_raw(answer, expected) ==
    LET user_answer == answer
        correct_answer == lower(expected)
    IN  In(user_answer, correct_answer) \/ In(correct_answer, user_answer)

blank_is_correct(answer, expected) ==
    LET user_answer == lower(answer)
        correct_answer == lower(expected)
    IN  In(user_answer, correct_answer) \/ In(correct_answer, user_answer)

\* sum(1 for keyword in expected_keywords if keyword in user_answer)
keyword_matches(expected_keywords, user_answer) ==
    Cardinality({k \in 1..Len(expected_keywords) : In(expected_keywords[k], user_answer)})

\* short answer: keyword_matches >= len(expected_keywords) * 0.5
short_is_correct_strict(answer, expected) ==
    LET user_answer == lower(answer)
        expected_keywords == split(lower(expected))
    IN  2 * keyword_matches(expected_keywords, user_answer) > Len(expected_keywords)

short_is_correct(answer, expected) ==
    LET user_answer == lower(answer)
        expected_keywords == split(lower(expected))
    IN  2 * keyword_matches(expected_keywords, user_answer) >= Len(expected_keywords)

\* the three accumulators of the scoring pass
ScoreStart == [total_questions |-> 0, correct_answers |-> 0, weak_areas |-> <<>>]

Credit(st) ==
    [st EXCEPT !.total_questions = @ + 1, !.correct_answers = @ + 1]

Miss(st, n, question) ==
    [st EXCEPT !.total_questions = @ + 1,
               !.weak_areas = Append(@, WeakArea(n, question))]

\* for i, mcq in enumerate(quiz_data["mcq_questions"])
RECURSIVE check_mcq(_, _, _, _)
check_mcq(qd, answers, i, st) ==
    IF i >= Len(qd.mcq_questions) THEN st
    ELSE LET mcq == qd.mcq_questions[i + 1]
             user_answer == Get(answers, McqKey(i), <<>>)
         IN  check_mcq(qd, answers, i + 1,
                 IF mcq_is_correct(user_answer, mcq.correct)
                 THEN Credit(st)
                 ELSE Miss(st, i + 1, mcq.question))

\* for i, blank in enumerate(quiz_data["fill_blanks"])
RECURSIVE check_blanks_local(_, _, _, _)
check_blanks_local(qd, answers, i, st) ==
    IF i >= Len(qd.fill_blanks) THEN st
    ELSE LET blank == qd.fill_blanks[i + 1]
             answer == Get(answers, BlankKey(i), <<>>)
         IN  check_blanks_local(qd, answers, i + 1,
                 IF blank_is_correct(answer, blank.answer)
                 THEN Credit(st)
                 ELSE Miss(st, i + 1, blank.question))

RECURSIVE check_blanks(_, _, _, _)
check_blanks(qd, answers, i, st) ==
    IF i >= Len(qd.fill_blanks) THEN st
    ELSE LET blank == qd.fill_blanks[i + 1]
             answer == Get(answers, BlankKey(i), <<>>)
         IN  check_blanks(qd, answers, i + 1,
                 IF blank_is_correct(answer, blank.answer)
                 THEN Credit(st)
                 ELSE Miss(st, Len(qd.mcq_questions) + i + 1, blank.question))

\* for i, short_q in enumerate(quiz_data["short_answer"])   (the list branch)
RECURSIVE check_short_list(_, _, _, _)
check_short_list(qd, answers, i, st) ==
    IF i >= Len(qd.short_answer.items) THEN st
    ELSE LET short_q == qd.short_answer.items[i + 1]
             answer == Get(answers, ShortKey(i), <<>>)
         IN  check_short_list(qd, answers, i + 1,
                 IF short_is_correct(answer, short_q.expected)
                 THEN Credit(st)
                 ELSE Miss(st, st.total_questions + 1, short_q.question))

\* the single short answer question (the dict branch)
check_short_single(qd, answers, st) ==
    LET short_q == qd.short_answer.items[1]
        answer == Get(answers, ShortAnswerKey, <<>>)
    IN  IF short_is_correct(answer, short_q.expected)
        THEN Credit(st)
        ELSE Miss(st, st.total_questions + 1, short_q.question)

\* if quiz_data["short_answer"]: list branch or dict branch
check_short_listonly(qd, answers, st) ==
    IF ShortTruthy(qd.short_answer) /\ qd.short_answer.type = "list"
    THEN check_short_list(qd, answers, 0, st)
    ELSE st

check_short(qd, answers, st) ==
    IF ~ShortTruthy(qd.short_answer) THEN st
    ELSE IF qd.short_answer.type = "list"
         THEN check_short_list(qd, answers, 0, st)
         ELSE check_short_single(qd, answers, st)

\* percentage = (correct_answers / total_questions * 100) if total_questions > 0
\* else 0; the float is kept as the exact fraction num / den
Percentage(correct_answers, total_questions) ==
    IF total_questions > 0
    THEN [num |-> correct_answers * 100, den |-> total_questions]
    ELSE [num |-> 0, den |-> 1]

\* the values display_quiz_results computes from the quiz and the answers
score(qd, answers) ==
    LET st == check_short(qd, answers,
                  check_blanks(qd, answers, 0,
                      check_mcq(qd, answers, 0, ScoreStart)))
    IN  [correct_answers |-> st.correct_answers,
         total_questions |-> st.total_questions,
         percentage |-> Percentage(st.correct_answers, st.total_questions),
         weak_areas |-> st.weak_areas]

(***************************************************************************)
(* The regular expressions of parse_quiz_for_display                       *)
(*                                                                         *)
(* A pattern is a sequence of elements; an element is a literal string or  *)
(* a character class with a quantifier.  grp is the capture group the      *)
(* element lies in (0: none).  MatchFrom is the backtracking search of     *)
(* Python's re: a greedy quantifier tries its longest run first, a lazy    *)
(* one its shortest, and the first choice under which the rest of the      *)
(* pattern matches is taken.                                               *)
(***************************************************************************)
Lit(s, g) ==
    [lit |-> s, chars |-> {}, neg |-> FALSE, min |-> 1, many |-> FALSE,
     lazy |-> FALSE, grp |-> g]

\* one character of a class: [A-D]
One(cs, g) ==
    [lit |-> <<>>, chars |-> cs, neg |-> FALSE, min |-> 1, many |-> FALSE,
     lazy |-> FALSE, grp |-> g]

\* \s*, [^:]*, [^]]*
Star(cs, isNeg, g) ==
    [lit |-> <<>>, chars |-> cs, neg |-> isNeg, min |-> 0, many |-> TRUE,
     lazy |-> FALSE, grp |-> g]

\* \d+, [^\n]+
Plus(cs, isNeg, g) ==
    [lit |-> <<>>, chars |-> cs, neg |-> isNeg, min |-> 1, many |-> TRUE,
     lazy |-> FALSE, grp |-> g]

\* [^B]+?
LazyPlus(cs, isNeg, g) ==
    [lit |-> <<>>, chars |-> cs, neg |-> isNeg, min |-> 1, many |-> TRUE,
     lazy |-> TRUE, grp |-> g]

\* character c is matched by the class of element e (ic: re.IGNORECASE)
CharIn(c, e, ic) ==
    LET hit == IF ic THEN \E x \in e.chars : lower_char(x) = lower_char(c)
               ELSE c \in e.chars
    IN  hit # e.neg

\* the literal s stands in text at position p
LitAt(text, p, s, ic) ==
    /\ p + Len(s) - 1 <= Len(text)
    /\ \A j \in 1..Len(s) :
           IF ic THEN lower_char(text[p + j - 1]) = lower_char(s[j])
           ELSE text[p + j - 1] = s[j]

NoMatch == [ok |-> FALSE, start |-> 0, ends |-> <<>>]

\* the largest element of a non-empty set of integers, the smallest
Max(S) == CHOOSE x \in S : \A y \in S : y <= x

Min(S) == CHOOSE x \in S : \A y \in S : x <= y

\* the positions of text that the class of element e does not match
Blocked(text, e, ic) == {j \in 1..Len(text) : ~CharIn(text[j], e, ic)}

\* how many characters in a row, ending just before position q, the class
\* of e matches; blocked is Blocked(text, e, ic) for a negated class (the
\* few excluded characters), and the run is scanned for \s and \d
BackRun(text, e, ic, blocked, q) ==
    IF e.neg
    THEN q - 1 - Max({b \in blocked : b < q} \cup {0})
    ELSE CHOOSE n \in 0..(q - 1) :
             /\ \A j \in 1..n : CharIn(text[q - j], e, ic)
             /\ (n < q - 1) => ~CharIn(text[q - n - 1], e, ic)

\* the positions from which element e alone matches up to position q
Starts(text, e, ic, blocked, q) ==
    IF e.lit # <<>>
    THEN IF q > Len(e.lit) /\ LitAt(text, q - Len(e.lit), e.lit, ic)
         THEN {q - Len(e.lit)} ELSE {}
    ELSE LET run == BackRun(text, e, ic, blocked, q)
             far == IF e.many \/ run = 0 THEN run ELSE 1
         IN  {q - n : n \in e.min..far}

\* the positions from which element e followed by a match of the rest of
\* the pattern succeeds, given the positions after from which the rest does
StepBack(text, e, ic, after) ==
    LET blocked == IF e.neg THEN Blocked(text, e, ic) ELSE {}
    IN  UNION {Starts(text, e, ic, blocked, q) : q \in after}

\* Table(...)[k - from + 1] is the set of positions of text from which
\* elements k.. of pat match, for k in from..Len(pat) + 1
RECURSIVE Table(_, _, _, _)
Table(pat, text, ic, from) ==
    IF from > Len(pat) THEN << 1..(Len(text) + 1) >>
    ELSE LET rest == Table(pat, text, ic, from + 1)
         IN  <<StepBack(text, pat[from], ic, rest[1])>> \o rest

\* the backtracking search of re from position p for elements k..: each
\* quantifier takes the first run length, in its order of preference
\* (longest first when greedy, shortest first when lazy), under which the
\* rest of the pattern still matches; the result lists the end positions
RECURSIVE MatchFrom(_, _, _, _, _, _)
MatchFrom(pat, text, ic, tab, k, p) ==
    IF k > Len(pat) THEN <<>>
    ELSE LET e == pat[k]
             blocked == IF e.neg THEN Blocked(text, e, ic) ELSE {}
             ends == {q \in tab[k + 1] : p \in Starts(text, e, ic, blocked, q)}
             q == IF e.lazy THEN Min(ends) ELSE Max(ends)
         IN  <<q>> \o MatchFrom(pat, text, ic, tab, k + 1, q)

\* the leftmost match of pat in text at or after pos (re.search from pos)
search(pat, text, ic, tab, pos) ==
    LET starts == {s \in tab[1] : s >= pos}
    IN  IF starts = {} THEN NoMatch
        ELSE [ok |-> TRUE, start |-> Min(starts),
              ends |-> MatchFrom(pat, text, ic, tab, 1, Min(starts))]

\* re.findall: the successive non-overlapping matches, left to right
RECURSIVE findall_from(_, _, _, _, _)
findall_from(pat, text, ic, tab, pos) ==
    LET m == search(pat, text, ic, tab, pos)
    IN  IF ~m.ok THEN <<>>
        ELSE <<m>> \o findall_from(pat, text, ic, tab, m.ends[Len(pat)])

findall(pat, text, ic) == findall_from(pat, text, ic, Table(pat, text, ic, 1), 1)

\* the text captured by group g of match m
Group(pat, text, m, g) ==
    LET idx == {i \in 1..Len(pat) : pat[i].grp = g}
        a == Min(idx)
        b == Max(idx)
        from == IF a = 1 THEN m.start ELSE m.ends[a - 1]
    IN  SubSeq(text, from, m.ends[b] - 1)

CorrectAnswerMarker ==
    <<"C","o","r","r","e","c","t"," ","A","n","s","w","e","r",":">>

ExpectedAnswerMarker ==
    <<"E","x","p","e","c","t","e","d"," ","A","n","s","w","e","r",":">>

ShortSectionMarker ==
    <<"S","h","o","r","t"," ","A","n","s","w","e","r"," ","Q","u","e","s","t","i","o","n",
      "s">>

AnswerMarker == <<"A","n","s","w","e","r",":">>

HintMarker == <<"[","H","i","n","t">>

BlankMarker == <<"_","_","_","_","_","_">>

\* (\d+\.\s*[^A-D]+?)\s*A\)\s*([^B]+?)\s*B\)\s*([^C]+?)\s*C\)\s*([^D]+?)\s*D\)
\* \s*([^C]+?)\s*Correct Answer:\s*([A-D])
mcq_pattern_anyletter ==
    << Plus(Digits, FALSE, 1), Lit(<<".">>, 1), Star(Whitespace, FALSE, 1),
       LazyPlus({"A","B","C","D"}, TRUE, 1),
       Star(Whitespace, FALSE, 0), Lit(<<"A",")">>, 0), Star(Whitespace, FALSE, 0),
       LazyPlus({"B"}, TRUE, 2),
       Star(Whitespace, FALSE, 0), Lit(<<"B",")">>, 0), Star(Whitespace, FALSE, 0),
       LazyPlus({"C"}, TRUE, 3),
       Star(Whitespace, FALSE, 0), Lit(<<"C",")">>, 0), Star(Whitespace, FALSE, 0),
       LazyPlus({"D"}, TRUE, 4),
       Star(Whitespace, FALSE, 0), Lit(<<"D",")">>, 0), Star(Whitespace, FALSE, 0),
       LazyPlus({"C"}, TRUE, 5),
       Star(Whitespace, FALSE, 0), Lit(CorrectAnswerMarker, 0),
       Star(Whitespace, FALSE, 0), One({UpperLetters[i] : i \in 1..26}, 6) >>

mcq_pattern ==
    << Plus(Digits, FALSE, 1), Lit(<<".">>, 1), Star(Whitespace, FALSE, 1),
       LazyPlus({"A","B","C","D"}, TRUE, 1),
       Star(Whitespace, FALSE, 0), Lit(<<"A",")">>, 0), Star(Whitespace, FALSE, 0),
       LazyPlus({"B"}, TRUE, 2),
       Star(Whitespace, FALSE, 0), Lit(<<"B",")">>, 0), Star(Whitespace, FALSE, 0),
       LazyPlus({"C"}, TRUE, 3),
       Star(Whitespace, FALSE, 0), Lit(<<"C",")">>, 0), Star(Whitespace, FALSE, 0),
       LazyPlus({"D"}, TRUE, 4),
       Star(Whitespace, FALSE, 0), Lit(<<"D",")">>, 0), Star(Whitespace, FALSE, 0),
       LazyPlus({"C"}, TRUE, 5),
       Star(Whitespace, FALSE, 0), Lit(CorrectAnswerMarker, 0),
       Star(Whitespace, FALSE, 0), One({"A","B","C","D"}, 6) >>

\* (\d+\.\s*[^_]+?)\s*______\s*\[Hint[^]]*\]\s*Answer:\s*([^\n]+)
blank_pattern ==
    << Plus(Digits, FALSE, 1), Lit(<<".">>, 1), Star(Whitespace, FALSE, 1),
       LazyPlus({"_"}, TRUE, 1),
       Star(Whitespace, FALSE, 0), Lit(BlankMarker, 0), Star(Whitespace, FALSE, 0),
       Lit(HintMarker, 0), Star({"]"}, TRUE, 0), Lit(<<"]">>, 0),
       Star(Whitespace, FALSE, 0), Lit(AnswerMarker, 0), Star(Whitespace, FALSE, 0),
       Plus({"\n"}, TRUE, 2) >>

\* (\d+\.\s*[^_]+?)\s*______\s*\.\s*Answer:\s*([^\n]+)
blank_pattern_simple ==
    << Plus(Digits, FALSE, 1), Lit(<<".">>, 1), Star(Whitespace, FALSE, 1),
       LazyPlus({"_"}, TRUE, 1),
       Star(Whitespace, FALSE, 0), Lit(BlankMarker, 0), Star(Whitespace, FALSE, 0),
       Lit(<<".">>, 0),
       Star(Whitespace, FALSE, 0), Lit(AnswerMarker, 0), Star(Whitespace, FALSE, 0),
       Plus({"\n"}, TRUE, 2) >>

\* Short Answer Questions[^:]*:\s*(\d+\.\s*[^E]+?)Expected Answer:\s*([^\n]+)
\* the part of short_pattern before its optional group
short_pattern ==
    << Lit(ShortSectionMarker, 0), Star({":"}, TRUE, 0), Lit(<<":">>, 0),
       Star(Whitespace, FALSE, 0),
       Plus(Digits, FALSE, 1), Lit(<<".">>, 1), Star(Whitespace, FALSE, 1),
       LazyPlus({"E"}, TRUE, 1),
       Lit(ExpectedAnswerMarker, 0), Star(Whitespace, FALSE, 0),
       Plus({"\n"}, TRUE, 2) >>

\* (?:\s*\d+\.\s*([^E]+?)Expected Answer:\s*([^\n]+))?
\* the optional group that ends short_pattern
short_pattern_second ==
    << Star(Whitespace, FALSE, 0), Plus(Digits, FALSE, 0), Lit(<<".">>, 0),
       Star(Whitespace, FALSE, 0),
       LazyPlus({"E"}, TRUE, 3),
       Lit(ExpectedAnswerMarker, 0), Star(Whitespace, FALSE, 0),
       Plus({"\n"}, TRUE, 4) >>

(***************************************************************************)
(* parse_quiz_for_display                                                  *)
(***************************************************************************)
\* mcq_matches: the strict pass, and the re.IGNORECASE pass when it is empty
mcq_matches(quiz_text) ==
    LET strict == findall(mcq_pattern, quiz_text, FALSE)
    IN  IF strict # <<>> THEN [ic |-> FALSE, found |-> strict]
        ELSE [ic |-> TRUE, found |-> findall(mcq_pattern, quiz_text, TRUE)]

parse_mcq_questions(quiz_text) ==
    LET ms == mcq_matches(quiz_text).found
        G(m, g) == strip(Group(mcq_pattern, quiz_text, m, g))
    IN  [i \in 1..Len(ms) |->
            [question |-> G(ms[i], 1),
             options |-> <<G(ms[i], 2), G(ms[i], 3), G(ms[i], 4), G(ms[i], 5)>>,
             correct |-> G(ms[i], 6)]]

\* blank_matches: the hint pattern, and the simple pattern when it is empty
blank_matches_simple_first(quiz_text) ==
    LET simple == findall(blank_pattern_simple, quiz_text, FALSE)
    IN  IF simple # <<>> THEN [pat |-> blank_pattern_simple, found |-> simple]
        ELSE [pat |-> blank_pattern, found |-> findall(blank_pattern, quiz_text, FALSE)]

blank_matches(quiz_text) ==
    LET hinted == findall(blank_pattern, quiz_text, FALSE)
    IN  IF hinted # <<>> THEN [pat |-> blank_pattern, found |-> hinted]
        ELSE [pat |-> blank_pattern_simple,
              found |-> findall(blank_pattern_simple, quiz_text, FALSE)]

parse_fill_blanks(quiz_text) ==
    LET bm == blank_matches(quiz_text)
        G(m, g) == strip(Group(bm.pat, quiz_text, m, g))
    IN  [i \in 1..Len(bm.found) |->
            [question |-> G(bm.found[i], 1), answer |-> G(bm.found[i], 2)]]

\* short_match = re.search(short_pattern, ...): a str when nothing matches,
\* a list when the optional group took part, a dict otherwise
parse_short_answer(quiz_text) ==
    LET m == search(short_pattern, quiz_text, FALSE,
                    Table(short_pattern, quiz_text, FALSE, 1), 1)
        at == m.ends[Len(short_pattern)]
        tab2 == Table(short_pattern_second, quiz_text, FALSE, 1)
        took_part == at \in tab2[1]
        m2 == [ok |-> TRUE, start |-> at,
               ends |-> MatchFrom(short_pattern_second, quiz_text, FALSE, tab2, 1, at)]
        first == [question |-> strip(Group(short_pattern, quiz_text, m, 1)),
                  expected |-> strip(Group(short_pattern, quiz_text, m, 2))]
        second == [question |-> strip(Group(short_pattern_second, quiz_text, m2, 3)),
                   expected |-> strip(Group(short_pattern_second, quiz_text, m2, 4))]
    IN  IF ~m.ok THEN ShortStr
        ELSE IF took_part THEN ShortList(<<first, second>>)
        ELSE ShortDict(first.question, first.expected)

\* the extracted items, before the fallback decision
extract_quiz(quiz_text) ==
    [mcq_questions |-> parse_mcq_questions(quiz_text),
     fill_blanks |-> parse_fill_blanks(quiz_text),
     short_answer |-> parse_short_answer(quiz_text),
     raw_text |-> quiz_text]

\* number of items of a parsed quiz
NumItems(qd) ==
    Len(qd.mcq_questions) + Len(qd.fill_blanks) + Len(qd.short_answer.items)

\* if not mcq_questions and not fill_blanks and not short_answer:
\*     quiz_data = create_fallback_quiz_data()
fallback_if_any_empty(qd) ==
    IF \/ qd.mcq_questions = <<>>
       \/ qd.fill_blanks = <<>>
       \/ ~ShortTruthy(qd.short_answer)
    THEN create_fallback_quiz_data
    ELSE qd

fallback_never(qd) == qd

fallback_if_empty(qd) ==
    IF /\ qd.mcq_questions = <<>>
       /\ qd.fill_blanks = <<>>
       /\ ~ShortTruthy(qd.short_answer)
    THEN create_fallback_quiz_data
    ELSE qd

\* quiz_text is a str, so no step of the try block raises and the except
\* branch is not taken
parse_quiz_for_display(quiz_text) == fallback_if_empty(extract_quiz(quiz_text))

(***************************************************************************)
(* Quiz texts in the format QUIZ_PROMPT asks the model for                 *)
(***************************************************************************)
\* no item of any type: parsed to the fallback quiz
QuizTextNoItems ==
    <<"n","o"," ","q","u","i","z"," ","h","e","r","e">>

\* one MCQ answered in lower case, one blank, a single short answer
QuizTextMixed ==
    <<"1","."," ","x","\n","A",")"," ","y","\n","B",")"," ","z","\n","C",")"," ","u","\n",
      "D",")"," ","v","\n","C","o","r","r","e","c","t"," ","A","n","s","w","e","r",":",
      " ","b","\n","2","."," ","a"," ","_","_","_","_","_","_"," ","[","H","i","n","t",
      ":"," ","h","]","\n","A","n","s","w","e","r",":"," ","R","e","s","u","m","e","\n",
      "S","h","o","r","t"," ","A","n","s","w","e","r"," ","Q","u","e","s","t","i","o","n",
      "s",":","\n","1","."," ","q","\n","E","x","p","e","c","t","e","d"," ","A","n","s",
      "w","e","r",":"," ","a","b"," ","c","d"," ","e","f"," ","g","h">>

\* two short answer questions of four keywords, one with a repeat
QuizTextTwoShort ==
    <<"S","h","o","r","t"," ","A","n","s","w","e","r"," ","Q","u","e","s","t","i","o","n",
      "s",":","\n","1","."," ","q","\n","E","x","p","e","c","t","e","d"," ","A","n","s",
      "w","e","r",":"," ","a","b"," ","c","d"," ","e","f"," ","g","h","\n","2","."," ",
      "r","\n","E","x","p","e","c","t","e","d"," ","A","n","s","w","e","r",":"," ","t",
      "o"," ","b","e"," ","o","r"," ","t","o">>

\* a blank whose answer line holds only spaces
QuizTextEmptyBlank ==
    <<"1","."," ","a"," ","_","_","_","_","_","_"," ",".","\n","A","n","s","w","e","r",
      ":"," "," ">>

\* a short answer whose expected answer holds only spaces
QuizTextEmptyShort ==
    <<"S","h","o","r","t"," ","A","n","s","w","e","r"," ","Q","u","e","s","t","i","o","n",
      "s",":","\n","1","."," ","q","\n","E","x","p","e","c","t","e","d"," ","A","n","s",
      "w","e","r",":"," "," ">>

\* two MCQs and one blank
QuizTextTwoMcq ==
    <<"1","."," ","x","\n","A",")"," ","y","\n","B",")"," ","z","\n","C",")"," ","u","\n",
      "D",")"," ","v","\n","C","o","r","r","e","c","t"," ","A","n","s","w","e","r",":",
      " ","B","\n","2","."," ","p","\n","A",")"," ","y","\n","B",")"," ","z","\n","C",")",
      " ","u","\n","D",")"," ","v","\n","C","o","r","r","e","c","t"," ","A","n","s","w",
      "e","r",":"," ","C","\n","1","."," ","a"," ","_","_","_","_","_","_"," ","[","H",
      "i","n","t",":"," ","h","]","\n","A","n","s","w","e","r",":"," ","r","e","s","u",
      "m","e">>

(***************************************************************************)
(* memory.py: SmartStudyMemory.add_quiz_result                             *)
(***************************************************************************)
\* every reported area appended, known or not
track_weak_areas_all(known, areas) == known \o areas

\* for area in weak_areas: if area not in self.learning_progress["weak_areas"]:
\*     self.learning_progress["weak_areas"].append(area)
RECURSIVE track_weak_areas(_, _)
track_weak_areas(known, areas) ==
    IF areas = <<>> THEN known
    ELSE track_weak_areas(
             IF \E j \in 1..Len(known) : known[j] = Head(areas)
             THEN known ELSE Append(known, Head(areas)),
             Tail(areas))

\* the learning progress after add_quiz_result(topic, score, total_questions,
\* weak_areas); (score / total_questions) * 100 raises ZeroDivisionError
\* before anything is appended
add_quiz_result(scores, known, topic, correct, total, areas) ==
    IF total = 0
    THEN [quiz_scores |-> scores, weak_areas |-> known, fault |-> "ZeroDivisionError"]
    ELSE [quiz_scores |-> Append(scores,
                             [topic |-> topic, score |-> correct,
                              total_questions |-> total,
                              percentage |-> [num |-> correct * 100, den |-> total],
                              weak_areas |-> areas]),
          weak_areas |-> track_weak_areas(known, areas),
          fault |-> ""]

(***************************************************************************)
(* The quiz flow of a session                                              *)
(***************************************************************************)
NoQuiz == [mcq_questions |-> <<>>, fill_blanks |-> <<>>, short_answer |-> ShortStr,
           raw_text |-> <<>>]

NoReport ==
    [correct_answers |-> 0, total_questions |-> 0, percentage |-> [num |-> 0, den |-> 1],
     weak_areas |-> <<>>]

\* initialize_session_state: the state a new browser session starts with
initialize_session_state ==
    [current_topic |-> <<>>, stored_quiz |-> <<>>, extracted |-> NoQuiz,
     quiz_data |-> NoQuiz, quiz_answers |-> EmptyDict, quiz_submitted |-> FALSE,
     quiz_saved_to_memory |-> FALSE, report |-> NoReport, quiz_scores |-> <<>>,
     weak_areas |-> <<>>, topics_explained |-> <<>>, strengths |-> <<>>,
     revision_suggestions |-> <<>>, explanation_generated |-> FALSE,
     quiz_generated |-> FALSE, fault |-> "", pc |-> "home"]

\* the keys of the answer widgets display_quiz_with_answers shows for a quiz
McqKeys(qd) == {McqKey(i) : i \in 0..(Len(qd.mcq_questions) - 1)}

BlankKeys(qd) == {BlankKey(i) : i \in 0..(Len(qd.fill_blanks) - 1)}

\* the single short answer stored under the key of the first list entry
ShortKeys_indexed(qd) ==
    IF qd.short_answer.type = "list"
    THEN {ShortKey(i) : i \in 0..(Len(qd.short_answer.items) - 1)}
    ELSE IF ShortTruthy(qd.short_answer) THEN {ShortKey(0)} ELSE {}

ShortKeys(qd) ==
    IF qd.short_answer.type = "list"
    THEN {ShortKey(i) : i \in 0..(Len(qd.short_answer.items) - 1)}
    ELSE IF ShortTruthy(qd.short_answer) THEN {ShortAnswerKey} ELSE {}

\* the letters of the four radio options: chr(65 + j)
OptionLetters == {<<"A">>, <<"B">>, <<"C">>, <<"D">>}

\* selected = st.radio(..., options, key=f"mcq_{i}"): a radio without index
\* returns its first option until another is chosen, so the first render
\* stores selected[0] = "A" for every MCQ
RECURSIVE store_selected(_, _, _)
store_selected(qd, answers, i) ==
    IF i >= Len(qd.mcq_questions) THEN answers
    ELSE store_selected(qd, DictSet(answers, McqKey(i), <<"A">>), i + 1)

\* display_explanation_and_quiz: the stored quiz is parsed and its form shown
display_quiz ==
    /\ pc = "generated"
    /\ quiz_generated
    /\ extracted' = extract_quiz(stored_quiz)
    /\ quiz_data' = fallback_if_empty(extracted')
    /\ quiz_answers' = store_selected(quiz_data', quiz_answers, 0)
    /\ pc' = IF quiz_submitted THEN "resubmitted" ELSE "displayed"
    /\ UNCHANGED <<document_loads, progress_lists, explanation_generated, quiz_generated, peer,
                   blocks, current_topic, stored_quiz, quiz_submitted,
                   quiz_saved_to_memory, report, quiz_scores, weak_areas, fault>>

\* display_quiz_with_answers: quiz_answers[f"mcq_{i}"] = selected[0]
select_option(key, letter) ==
    /\ pc = "displayed"
    /\ key \in McqKeys(quiz_data)
    /\ quiz_answers' = DictSet(quiz_answers, key, letter)
    /\ UNCHANGED <<document_loads, progress_lists, explanation_generated, quiz_generated, peer,
                   blocks, current_topic, stored_quiz, extracted, quiz_data,
                   quiz_submitted, quiz_saved_to_memory, report, quiz_scores,
                   weak_areas, fault, pc>>

\* display_quiz_with_answers: if answer: quiz_answers[key] = answer.strip()
type_answer(key, typed) ==
    /\ pc = "displayed"
    /\ key \in BlankKeys(quiz_data) \cup ShortKeys(quiz_data)
    /\ typed # <<>>
    /\ quiz_answers' = DictSet(quiz_answers, key, strip(typed))
    /\ UNCHANGED <<document_loads, progress_lists, explanation_generated, quiz_generated, peer,
                   blocks, current_topic, stored_quiz, extracted, quiz_data,
                   quiz_submitted, quiz_saved_to_memory, report, quiz_scores,
                   weak_areas, fault, pc>>

\* the Submit Quiz button with an empty answer set: st.warning, nothing stored
submit_quiz_empty ==
    /\ pc = "displayed"
    /\ DictLen(quiz_answers) = 0
    /\ UNCHANGED vars

\* Submit Quiz accepted whatever the answer set holds
submit_quiz_unguarded ==
    /\ pc = "displayed"
    /\ quiz_submitted' = TRUE
    /\ pc' = "submitted"
    /\ UNCHANGED <<document_loads, progress_lists, explanation_generated, quiz_generated, peer,
                   blocks, current_topic, stored_quiz, extracted, quiz_data,
                   quiz_answers, quiz_saved_to_memory, report, quiz_scores,
                   weak_areas, fault>>

\* the Submit Quiz button: taken only with at least one stored answer
submit_quiz ==
    /\ pc = "displayed"
    /\ DictLen(quiz_answers) > 0
    /\ quiz_submitted' = TRUE
    /\ pc' = "submitted"
    /\ UNCHANGED <<document_loads, progress_lists, explanation_generated, quiz_generated, peer,
                   blocks, current_topic, stored_quiz, extracted, quiz_data,
                   quiz_answers, quiz_saved_to_memory, report, quiz_scores,
                   weak_areas, fault>>

\* display_quiz_results: the scoring pass, then the save to memory unless
\* quiz_saved_to_memory is set
display_quiz_results ==
    /\ pc = "submitted"
    /\ quiz_submitted
    /\ report' = score(quiz_data, quiz_answers)
    /\ LET saved == add_quiz_result(quiz_scores, weak_areas, current_topic,
                        report'.correct_answers, report'.total_questions,
                        report'.weak_areas)
       IN  IF quiz_saved_to_memory
           THEN UNCHANGED <<quiz_scores, weak_areas, fault, quiz_saved_to_memory>>
           ELSE /\ quiz_scores' = saved.quiz_scores
                /\ weak_areas' = saved.weak_areas
                /\ fault' = saved.fault
                /\ quiz_saved_to_memory' = (saved.fault = "")
    /\ pc' = "results"
    /\ UNCHANGED <<document_loads, progress_lists, explanation_generated, quiz_generated, peer,
                   blocks, current_topic, stored_quiz, extracted, quiz_data,
                   quiz_answers, quiz_submitted>>

(***************************************************************************)
(* SpecScore: display_quiz_results applied to a quiz and an answer set     *)
(***************************************************************************)
ScoreTexts ==
    {QuizTextNoItems, QuizTextMixed, QuizTextTwoShort, QuizTextEmptyBlank,
     QuizTextEmptyShort, QuizTextTwoMcq}

\* what a learner may have left in a text input, after strip()
Submissions ==
    { <<>>, <<"r","e">>, <<"c","v">>, <<"a"," ","r","e","s","u","m","e">>,
      <<"a","b"," ","c","d">>, <<"a","b">>, <<"t","o">>, <<"b","e">> }

\* quizzes of at most this many items are answered from all of Submissions
\* and all four letters, longer ones with the expected answer or one wrong one
MaxRichItems == 3

\* the items of a quiz in the order MCQ, fill in the blank, short answer
Items(qd) ==
    [n \in 1..NumItems(qd) |->
        IF n <= Len(qd.mcq_questions)
        THEN [type |-> "mcq", key |-> McqKey(n - 1),
              question |-> qd.mcq_questions[n].question,
              expected |-> qd.mcq_questions[n].correct]
        ELSE IF n <= Len(qd.mcq_questions) + Len(qd.fill_blanks)
        THEN LET i == n - Len(qd.mcq_questions)
             IN  [type |-> "blank", key |-> BlankKey(i - 1),
                  question |-> qd.fill_blanks[i].question,
                  expected |-> qd.fill_blanks[i].answer]
        ELSE LET i == n - Len(qd.mcq_questions) - Len(qd.fill_blanks)
             IN  [type |-> "short",
                  key |-> IF qd.short_answer.type = "list" THEN ShortKey(i - 1)
                          ELSE ShortAnswerKey,
                  question |-> qd.short_answer.items[i].question,
                  expected |-> qd.short_answer.items[i].expected]]

\* the answers a learner may have stored for one item
Choices(qd, item) ==
    {item.expected} \cup
    IF NumItems(qd) <= MaxRichItems
    THEN IF item.type = "mcq" THEN OptionLetters ELSE Submissions
    ELSE IF item.type = "mcq" THEN {<<"A">>} ELSE {<<"c","v">>}

\* the answer sets for a quiz: any of its items answered or not
AnswerSets(qd) ==
    LET its == Items(qd)
        keyed == SUBSET {its[n].key : n \in 1..Len(its)}
        ItemOf(k) == its[CHOOSE n \in 1..Len(its) : its[n].key = k]
    IN  UNION {{f \in [K -> UNION {Choices(qd, ItemOf(k)) : k \in K}] :
                    \A k \in K : f[k] \in Choices(qd, ItemOf(k))} : K \in keyed}

InitScore ==
    /\ blocks = <<>>
    /\ current_topic = <<"C","V">>
    /\ explanation_generated = TRUE
    /\ quiz_generated = TRUE
    /\ peer = initialize_session_state
    /\ topics_explained = <<>>
    /\ strengths = <<>>
    /\ temp_file = NoTempFile
    /\ loads = NoLoads
    /\ revision_suggestions = <<>>
    /\ stored_quiz \in ScoreTexts
    /\ extracted = extract_quiz(stored_quiz)
    /\ quiz_data = fallback_if_empty(extracted)
    /\ quiz_answers \in AnswerSets(quiz_data)
    /\ quiz_submitted = TRUE
    /\ quiz_saved_to_memory = FALSE
    /\ report = NoReport
    /\ quiz_scores = <<>>
    /\ weak_areas = <<>>
    /\ fault = ""
    /\ pc = "submitted"

NextScore == display_quiz_results

SpecScore == InitScore /\ [][NextScore]_vars

(***************************************************************************)
(* SpecParse: a quiz text written block by block in the format of          *)
(* QUIZ_PROMPT, parsed, answered, submitted and scored                     *)
(***************************************************************************)
\* at most this many blocks in a quiz text
MaxBlocks == 2

NoOptions == << <<>>, <<>>, <<>>, <<>> >>

\* an MCQ block whose texts are lower-case letters
McqPlain ==
    [kind |-> "mcq", question |-> <<"x"," ","y","?">>,
     options |-> << <<"p">>, <<"q"," ","r">>, <<"s">>, <<"t">> >>,
     answer |-> <<"B">>]

\* an MCQ block whose option texts start with a capital letter
McqNames ==
    [kind |-> "mcq", question |-> <<"w","h","o","?">>,
     options |-> << <<"A","n","n">>, <<"B","o","b">>, <<"C","y">>, <<"D","i">> >>,
     answer |-> <<"C">>]

\* an MCQ block whose question holds capital letters among A to D
McqDna ==
    [kind |-> "mcq", question |-> <<"W","h","a","t"," ","i","s"," ","D","N","A","?">>,
     options |-> << <<"1">>, <<"2">>, <<"3">>, <<"4">> >>,
     answer |-> <<"A">>]

BlankHinted ==
    [kind |-> "blank", question |-> <<"a"," ","c","v"," ","i","s"," ","a">>,
     options |-> NoOptions, answer |-> <<"r","e","s","u","m","e">>]

BlankSimple ==
    [kind |-> "blank_simple", question |-> <<"i","t"," ","i","s">>,
     options |-> NoOptions, answer |-> <<"s","o">>]

ShortSection ==
    [kind |-> "short", question |-> <<"w","h","y","?">>,
     options |-> NoOptions, answer |-> <<"t","o"," ","b","e"," ","o","r"," ","t","o">>]

FreeText ==
    [kind |-> "text", question |-> <<"n","o"," ","q","u","i","z"," ","h","e","r","e">>,
     options |-> NoOptions, answer |-> <<>>]

BlockChoices ==
    {McqPlain, McqNames, McqDna, BlankHinted, BlankSimple, ShortSection, FreeText}

\* the entries of a short answer section, numbered from n, one per two lines
RECURSIVE EntriesText(_, _)
EntriesText(entries, n) ==
    IF entries = <<>> THEN <<>>
    ELSE <<"\n">> \o str(n) \o <<"."," ">> \o Head(entries).question \o <<"\n">>
             \o ExpectedAnswerMarker \o <<" ">> \o Head(entries).answer
             \o EntriesText(Tail(entries), n + 1)

\* an MCQ block that lacks the line of one option or its answer line
MalformedText(b, n) ==
    LET Line(letter, text) ==
            IF b.missing = letter THEN <<>>
            ELSE <<"\n">> \o letter \o <<")"," ">> \o text
    IN  str(n) \o <<"."," ">> \o b.question
            \o Line(<<"A">>, b.options[1]) \o Line(<<"B">>, b.options[2])
            \o Line(<<"C">>, b.options[3]) \o Line(<<"D">>, b.options[4])
            \o (IF b.missing = <<>> THEN <<>>
                ELSE <<"\n">> \o CorrectAnswerMarker \o <<" ">> \o b.answer)

\* the text of block b, numbered n, as QUIZ_PROMPT lays it out
BlockText(b, n) ==
    LET num == str(n) \o <<"."," ">>
        nl == <<"\n">>
    IN  CASE b.kind \in {"mcq", "mcq_letter"} ->
                 num \o b.question \o nl
                     \o <<"A",")"," ">> \o b.options[1] \o nl
                     \o <<"B",")"," ">> \o b.options[2] \o nl
                     \o <<"C",")"," ">> \o b.options[3] \o nl
                     \o <<"D",")"," ">> \o b.options[4] \o nl
                     \o CorrectAnswerMarker \o <<" ">> \o b.answer
          [] b.kind = "blank" ->
                 num \o b.question \o <<" ">> \o BlankMarker \o <<" ">>
                     \o HintMarker \o <<":"," ","h","]">> \o nl
                     \o AnswerMarker \o <<" ">> \o b.answer
          [] b.kind = "blank_simple" ->
                 num \o b.question \o <<" ">> \o BlankMarker \o <<" ",".">> \o nl
                     \o AnswerMarker \o <<" ">> \o b.answer
          [] b.kind = "short" ->
                 ShortSectionMarker \o <<":">> \o nl \o num \o b.question \o nl
                     \o ExpectedAnswerMarker \o <<" ">> \o b.answer
          [] b.kind = "mcq_malformed" -> MalformedText(b, n)
          [] b.kind = "short_section" ->
                 ShortSectionMarker \o <<":">> \o EntriesText(b.entries, n)
          [] OTHER -> b.question

\* the blocks, numbered from 1, one per line
RECURSIVE QuizText(_, _)
QuizText(bs, n) ==
    IF n > Len(bs) THEN <<>>
    ELSE BlockText(bs[n], n)
             \o (IF n < Len(bs) THEN <<"\n">> ELSE <<>>) \o QuizText(bs, n + 1)

\* what the learner types in a text input of the parsed quiz
TypedAnswers == { <<"t","o"," ">> }

\* the letters the learner moves a radio to
SelectedLetters == { <<"B">>, <<"C">> }

InitParse ==
    /\ \E k \in 1..MaxBlocks : blocks \in [1..k -> BlockChoices]
    /\ current_topic = <<"C","V">>
    /\ explanation_generated = TRUE
    /\ quiz_generated = TRUE
    /\ peer = initialize_session_state
    /\ topics_explained = <<>>
    /\ strengths = <<>>
    /\ temp_file = NoTempFile
    /\ loads = NoLoads
    /\ revision_suggestions = <<>>
    /\ stored_quiz = QuizText(blocks, 1)
    /\ extracted = NoQuiz
    /\ quiz_data = NoQuiz
    /\ quiz_answers = EmptyDict
    /\ quiz_submitted = FALSE
    /\ quiz_saved_to_memory = FALSE
    /\ report = NoReport
    /\ quiz_scores = <<>>
    /\ weak_areas = <<>>
    /\ fault = ""
    /\ pc = "generated"

NextParse ==
    \/ display_quiz
    \/ \E key \in McqKeys(quiz_data), letter \in SelectedLetters :
           select_option(key, letter)
    \/ \E key \in BlankKeys(quiz_data) \cup ShortKeys(quiz_data), typed \in TypedAnswers :
           type_answer(key, typed)
    \/ submit_quiz
    \/ display_quiz_results

SpecParse == InitParse /\ [][NextParse]_vars

(***************************************************************************)
(* SpecText: quiz texts with malformed MCQ blocks, answer letters outside  *)
(* A to D and short answer sections of one to three entries, parsed, the   *)
(* MCQs answered with any of the four letters, submitted and scored        *)
(***************************************************************************)
\* an MCQ block without its "B)" line
McqNoOptionB ==
    [kind |-> "mcq_malformed", missing |-> <<"B">>, question |-> <<"w","h","o","?">>,
     options |-> << <<"e">>, <<"f">>, <<"g">>, <<"h">> >>, answer |-> <<"C">>]

\* an MCQ block without its "D)" line
McqNoOptionD ==
    [kind |-> "mcq_malformed", missing |-> <<"D">>, question |-> <<"w","h","o","?">>,
     options |-> << <<"e">>, <<"f">>, <<"g">>, <<"h">> >>, answer |-> <<"C">>]

\* an MCQ block without its "Correct Answer:" line
McqNoAnswer ==
    [kind |-> "mcq_malformed", missing |-> <<>>, question |-> <<"w","h","o","?">>,
     options |-> << <<"e">>, <<"f">>, <<"g">>, <<"h">> >>, answer |-> <<"C">>]

\* a well-formed MCQ block whose answer line names the letter E
McqLetterE ==
    [kind |-> "mcq_letter", question |-> <<"w","h","y","?">>,
     options |-> << <<"i">>, <<"j">>, <<"k">>, <<"l">> >>, answer |-> <<"E">>]

\* a well-formed MCQ block whose answer line names the letter b
McqLetterLower ==
    [kind |-> "mcq_letter", question |-> <<"h","o","w","?">>,
     options |-> << <<"m">>, <<"n">>, <<"o">>, <<"u">> >>, answer |-> <<"b">>]

ShortEntryWhy == [question |-> <<"w","h","y","?">>, answer |-> <<"t","o"," ","b","e">>]

ShortEntryHow == [question |-> <<"h","o","w","?">>, answer |-> <<"s","o">>]

ShortEntryWho == [question |-> <<"w","h","o","?">>, answer |-> <<"m","e">>]

\* an entry whose question holds a capital E
ShortEntryExplain ==
    [question |-> <<"E","x","p","l","a","i","n"," ","i","t">>, answer |-> <<"n","o">>]

ShortTwo == [kind |-> "short_section", entries |-> <<ShortEntryWhy, ShortEntryHow>>]

ShortThree ==
    [kind |-> "short_section", entries |-> <<ShortEntryWhy, ShortEntryHow, ShortEntryWho>>]

ShortExplainFirst ==
    [kind |-> "short_section", entries |-> <<ShortEntryExplain, ShortEntryHow>>]

ShortExplainSecond ==
    [kind |-> "short_section", entries |-> <<ShortEntryWhy, ShortEntryExplain>>]

ShortOne == [kind |-> "short_section", entries |-> <<ShortEntryWhy>>]

TextBlockChoices ==
    {McqPlain, McqNoOptionB, McqNoOptionD, McqNoAnswer, McqLetterE, McqLetterLower,
     ShortOne, ShortTwo, ShortThree, ShortExplainFirst, ShortExplainSecond}

InitText ==
    /\ \E k \in 1..MaxBlocks : blocks \in [1..k -> TextBlockChoices]
    /\ current_topic = <<"C","V">>
    /\ explanation_generated = TRUE
    /\ quiz_generated = TRUE
    /\ peer = initialize_session_state
    /\ topics_explained = <<>>
    /\ strengths = <<>>
    /\ temp_file = NoTempFile
    /\ loads = NoLoads
    /\ revision_suggestions = <<>>
    /\ stored_quiz = QuizText(blocks, 1)
    /\ extracted = NoQuiz
    /\ quiz_data = NoQuiz
    /\ quiz_answers = EmptyDict
    /\ quiz_submitted = FALSE
    /\ quiz_saved_to_memory = FALSE
    /\ report = NoReport
    /\ quiz_scores = <<>>
    /\ weak_areas = <<>>
    /\ fault = ""
    /\ pc = "generated"

NextText ==
    \/ display_quiz
    \/ \E key \in McqKeys(quiz_data), letter \in OptionLetters :
           select_option(key, letter)
    \/ submit_quiz
    \/ display_quiz_results

SpecText == InitText /\ [][NextText]_vars
(***************************************************************************)
(* SpecSession: the pages of one session, from the home page through       *)
(* explanation, quiz, submission, results and back                         *)
(***************************************************************************)
\* st.session_state.stored_quiz after del / None
NoStoredQuiz == <<>>

\* the home page is shown while current_topic is empty
page_without_quiz(topic) == IF topic = <<>> THEN "home" ELSE "topic"

\* the pages on which the buttons of a finished script run can be clicked
rendered == {"home", "topic", "displayed", "results"}

\* quiz_data and the score report are locals of the script run that rendered
\* them: a run that renders no quiz leaves none behind
no_quiz_rendered ==
    /\ extracted' = NoQuiz
    /\ quiz_data' = NoQuiz
    /\ report' = NoReport

\* Reset Progress with the learning progress held by the class, not the object
reset_progress_every_session ==
    /\ pc \in rendered
    /\ quiz_scores' = <<>>
    /\ weak_areas' = <<>>
    /\ topics_explained' = <<>>
    /\ strengths' = <<>>
    /\ revision_suggestions' = <<>>
    /\ peer' = [peer EXCEPT !.quiz_scores = <<>>, !.weak_areas = <<>>]
    /\ explanation_generated' = FALSE
    /\ quiz_generated' = FALSE
    /\ pc' = page_without_quiz(current_topic)
    /\ no_quiz_rendered
    /\ UNCHANGED <<document_loads, blocks, current_topic, stored_quiz,
                   quiz_answers, quiz_submitted, quiz_saved_to_memory, fault>>

\* Reset Progress with a memory.reset_progress() that keeps the suggestions
reset_progress_keeps_suggestions ==
    /\ pc \in rendered
    /\ quiz_scores' = <<>>
    /\ weak_areas' = <<>>
    /\ topics_explained' = <<>>
    /\ strengths' = <<>>
    /\ explanation_generated' = FALSE
    /\ quiz_generated' = FALSE
    /\ pc' = page_without_quiz(current_topic)
    /\ no_quiz_rendered
    /\ UNCHANGED <<document_loads, revision_suggestions, peer, blocks, current_topic, stored_quiz,
                   quiz_answers, quiz_submitted, quiz_saved_to_memory, fault>>

\* sidebar, Reset Progress: memory.reset_progress() and both page flags off
reset_progress ==
    /\ pc \in rendered
    /\ quiz_scores' = <<>>
    /\ weak_areas' = <<>>
    /\ topics_explained' = <<>>
    /\ strengths' = <<>>
    /\ revision_suggestions' = <<>>
    /\ explanation_generated' = FALSE
    /\ quiz_generated' = FALSE
    /\ pc' = page_without_quiz(current_topic)
    /\ no_quiz_rendered
    /\ UNCHANGED <<document_loads, peer, blocks, current_topic, stored_quiz,
                   quiz_answers, quiz_submitted, quiz_saved_to_memory, fault>>

\* sidebar, Clear Session: memory.clear_session_memory() empties the chat
\* buffer, which holds no learning progress, and both page flags go off
clear_session ==
    /\ pc \in rendered
    /\ explanation_generated' = FALSE
    /\ quiz_generated' = FALSE
    /\ pc' = page_without_quiz(current_topic)
    /\ no_quiz_rendered
    /\ UNCHANGED <<document_loads, progress_lists, peer, blocks, current_topic, stored_quiz, quiz_answers,
                   quiz_submitted, quiz_saved_to_memory, quiz_scores, weak_areas,
                   fault>>

\* home page, Learn Topic: taken with a non-empty topic_input
learn_topic(topic_input) ==
    /\ pc = "home"
    /\ topic_input # <<>>
    /\ current_topic' = topic_input
    /\ explanation_generated' = FALSE
    /\ quiz_generated' = FALSE
    /\ stored_quiz' = NoStoredQuiz
    /\ pc' = "topic"
    /\ no_quiz_rendered
    /\ UNCHANGED <<document_loads, progress_lists, peer, blocks, quiz_answers, quiz_submitted,
                   quiz_saved_to_memory, quiz_scores, weak_areas, fault>>

\* f"Document: {uploaded_file.name}"
DocumentPrefix == <<"D","o","c","u","m","e","n","t",":"," ">>

\* home page, Process Document: taken when load_document returned content
process_document(name) ==
    /\ pc = "home"
    /\ current_topic' = DocumentPrefix \o name
    /\ explanation_generated' = FALSE
    /\ quiz_generated' = FALSE
    /\ stored_quiz' = NoStoredQuiz
    /\ pc' = "topic"
    /\ no_quiz_rendered
    /\ UNCHANGED <<document_loads, progress_lists, peer, blocks, quiz_answers, quiz_submitted,
                   quiz_saved_to_memory, quiz_scores, weak_areas, fault>>

\* Back to Home leaving quiz_generated as it is
back_to_home_quiz_flag_kept ==
    /\ pc \in rendered \ {"home"}
    /\ current_topic' = <<>>
    /\ explanation_generated' = FALSE
    /\ stored_quiz' = NoStoredQuiz
    /\ pc' = "home"
    /\ no_quiz_rendered
    /\ UNCHANGED <<document_loads, progress_lists, peer, blocks, quiz_answers, quiz_submitted, quiz_generated,
                   quiz_saved_to_memory, quiz_scores, weak_areas, fault>>

\* Back to Home, shown below every page that has a topic
back_to_home ==
    /\ pc \in rendered \ {"home"}
    /\ current_topic' = <<>>
    /\ explanation_generated' = FALSE
    /\ quiz_generated' = FALSE
    /\ stored_quiz' = NoStoredQuiz
    /\ pc' = "home"
    /\ no_quiz_rendered
    /\ UNCHANGED <<document_loads, progress_lists, peer, blocks, quiz_answers, quiz_submitted,
                   quiz_saved_to_memory, quiz_scores, weak_areas, fault>>

\* Generate Explanation, shown while explanation_generated is off
generate_explanation ==
    /\ pc = "topic"
    /\ ~explanation_generated
    /\ explanation_generated' = TRUE
    /\ UNCHANGED <<document_loads, progress_lists, peer, blocks, current_topic, stored_quiz, extracted, quiz_data,
                   quiz_answers, quiz_submitted, quiz_saved_to_memory, report,
                   quiz_scores, weak_areas, quiz_generated, fault, pc>>

\* Generate Quiz, shown under the explanation while quiz_generated is off;
\* quiz is the text chains.generate_quiz returned
generate_quiz(quiz) ==
    /\ pc = "topic"
    /\ explanation_generated
    /\ ~quiz_generated
    /\ stored_quiz' = quiz
    /\ quiz_generated' = TRUE
    /\ pc' = "generated"
    /\ UNCHANGED <<document_loads, progress_lists, peer, blocks, current_topic, extracted, quiz_data, quiz_answers,
                   quiz_submitted, quiz_saved_to_memory, report, quiz_scores,
                   weak_areas, explanation_generated, fault>>

\* Regenerate Quiz with the answers left as they are
regenerate_quiz_keep_answers(quiz) ==
    /\ pc \in {"displayed", "results"}
    /\ explanation_generated
    /\ quiz_generated
    /\ quiz_submitted' = FALSE
    /\ stored_quiz' = quiz
    /\ pc' = "generated"
    /\ no_quiz_rendered
    /\ UNCHANGED <<document_loads, progress_lists, peer, blocks, current_topic, quiz_answers,
                   quiz_saved_to_memory, quiz_scores, weak_areas,
                   explanation_generated, quiz_generated, fault>>

\* Regenerate Quiz, shown under the explanation while quiz_generated is on:
\* del stored_quiz, quiz_submitted = False, quiz_answers = {}, then the text
\* chains.generate_quiz returned is stored
regenerate_quiz(quiz) ==
    /\ pc \in {"displayed", "results"}
    /\ explanation_generated
    /\ quiz_generated
    /\ quiz_submitted' = FALSE
    /\ quiz_answers' = EmptyDict
    /\ stored_quiz' = quiz
    /\ pc' = "generated"
    /\ no_quiz_rendered
    /\ UNCHANGED <<document_loads, progress_lists, peer, blocks, current_topic,
                   quiz_saved_to_memory, quiz_scores, weak_areas,
                   explanation_generated, quiz_generated, fault>>

\* display_quiz_results saving to memory at every run
results_rendered_always_saved ==
    /\ report' = score(quiz_data', quiz_answers')
    /\ LET saved == add_quiz_result(quiz_scores, weak_areas, current_topic,
                        report'.correct_answers, report'.total_questions,
                        report'.weak_areas)
       IN  /\ quiz_scores' = saved.quiz_scores
           /\ weak_areas' = saved.weak_areas
           /\ fault' = saved.fault
           /\ quiz_saved_to_memory' = (saved.fault = "")
    /\ pc' = "results"

\* display_quiz_results as the last step of a script run that rendered the
\* quiz form: the scoring pass, then the save to memory unless
\* quiz_saved_to_memory is set
results_rendered ==
    /\ report' = score(quiz_data', quiz_answers')
    /\ LET saved == add_quiz_result(quiz_scores, weak_areas, current_topic,
                        report'.correct_answers, report'.total_questions,
                        report'.weak_areas)
       IN  IF quiz_saved_to_memory
           THEN UNCHANGED <<quiz_scores, weak_areas, fault, quiz_saved_to_memory>>
           ELSE /\ quiz_scores' = saved.quiz_scores
                /\ weak_areas' = saved.weak_areas
                /\ fault' = saved.fault
                /\ quiz_saved_to_memory' = (saved.fault = "")
    /\ pc' = "results"

\* display_quiz_with_answers, if st.session_state.quiz_submitted: the results
\* shown below a form that was rendered while quiz_submitted was still on
display_results_below_form ==
    /\ pc = "resubmitted"
    /\ quiz_submitted
    /\ UNCHANGED <<document_loads, progress_lists, peer, blocks, current_topic, stored_quiz, extracted, quiz_data,
                   quiz_answers, quiz_submitted, explanation_generated,
                   quiz_generated>>
    /\ results_rendered

\* a radio moved while the results are shown: the rerun stores the letter
\* and display_quiz_results runs again
revise_option(key, letter) ==
    /\ pc = "results"
    /\ key \in McqKeys(quiz_data)
    /\ quiz_answers' = DictSet(quiz_answers, key, letter)
    /\ UNCHANGED <<document_loads, progress_lists, peer, blocks, current_topic, stored_quiz, extracted, quiz_data,
                   quiz_submitted, explanation_generated, quiz_generated>>
    /\ results_rendered

\* a text input changed while the results are shown
revise_answer(key, typed) ==
    /\ pc = "results"
    /\ key \in BlankKeys(quiz_data) \cup ShortKeys(quiz_data)
    /\ typed # <<>>
    /\ quiz_answers' = DictSet(quiz_answers, key, strip(typed))
    /\ UNCHANGED <<document_loads, progress_lists, peer, blocks, current_topic, stored_quiz, extracted, quiz_data,
                   quiz_submitted, explanation_generated, quiz_generated>>
    /\ results_rendered

\* Generate Revision Plan: the click reruns the script, which renders the
\* form and the results again from the same quiz and answers
generate_revision_plan ==
    /\ pc = "results"
    /\ UNCHANGED <<document_loads, progress_lists, peer, blocks, current_topic, stored_quiz, extracted, quiz_data,
                   quiz_answers, quiz_submitted, explanation_generated,
                   quiz_generated>>
    /\ results_rendered

\* Try Again, shown below the results
try_again ==
    /\ pc = "results"
    /\ quiz_submitted' = FALSE
    /\ quiz_answers' = EmptyDict
    /\ quiz_saved_to_memory' = FALSE
    /\ pc' = "generated"
    /\ no_quiz_rendered
    /\ UNCHANGED <<document_loads, progress_lists, peer, blocks, current_topic, stored_quiz,
                   quiz_scores, weak_areas, explanation_generated,
                   quiz_generated, fault>>

\* what a learner enters as a topic
Topics == { <<"C","V">> }

\* the name of an uploaded file
DocumentNames == { <<"a",".","p","d","f">> }

\* the texts chains.generate_quiz returns in this specification
GeneratedTexts == {QuizText(<<McqPlain>>, 1), QuizTextTwoShort}

\* Try Again is no longer clicked after this many saved results
MaxSaved == 1

InitSession ==
    /\ blocks = <<>>
    /\ current_topic = initialize_session_state.current_topic
    /\ stored_quiz = initialize_session_state.stored_quiz
    /\ extracted = initialize_session_state.extracted
    /\ quiz_data = initialize_session_state.quiz_data
    /\ quiz_answers = initialize_session_state.quiz_answers
    /\ quiz_submitted = initialize_session_state.quiz_submitted
    /\ quiz_saved_to_memory = initialize_session_state.quiz_saved_to_memory
    /\ report = initialize_session_state.report
    /\ quiz_scores = initialize_session_state.quiz_scores
    /\ weak_areas = initialize_session_state.weak_areas
    /\ topics_explained = initialize_session_state.topics_explained
    /\ strengths = initialize_session_state.strengths
    /\ temp_file = NoTempFile
    /\ loads = NoLoads
    /\ revision_suggestions = initialize_session_state.revision_suggestions
    /\ explanation_generated = initialize_session_state.explanation_generated
    /\ quiz_generated = initialize_session_state.quiz_generated
    /\ fault = initialize_session_state.fault
    /\ pc = initialize_session_state.pc
    /\ peer = initialize_session_state

NextSession ==
    \/ \E topic_input \in Topics : learn_topic(topic_input)
    \/ \E name \in DocumentNames : process_document(name)
    \/ generate_explanation
    \/ \E quiz \in GeneratedTexts : generate_quiz(quiz)
    \/ \E quiz \in GeneratedTexts : regenerate_quiz(quiz)
    \/ display_quiz
    \/ display_results_below_form
    \/ \E key \in McqKeys(quiz_data), letter \in SelectedLetters :
           select_option(key, letter)
    \/ \E key \in BlankKeys(quiz_data) \cup ShortKeys(quiz_data), typed \in TypedAnswers :
           type_answer(key, typed)
    \/ submit_quiz
    \/ submit_quiz_empty
    \/ display_quiz_results
    \/ \E key \in McqKeys(quiz_data), letter \in SelectedLetters :
           revise_option(key, letter)
    \/ \E key \in BlankKeys(quiz_data) \cup ShortKeys(quiz_data), typed \in TypedAnswers :
           revise_answer(key, typed)
    \/ generate_revision_plan
    \/ (Len(quiz_scores) < MaxSaved /\ try_again)
    \/ reset_progress
    \/ clear_session
    \/ back_to_home

SpecSession == InitSession /\ [][NextSession]_vars

(***************************************************************************)
(* SpecSessions: two browser sessions served by one process.  The          *)
(* variables hold st.session_state and the memory object of the session    *)
(* whose script is running, peer those of the other session                *)
(***************************************************************************)
\* st.session_state, with the learning progress of its memory object, of the
\* session whose script is running
SessionState ==
    [current_topic |-> current_topic, stored_quiz |-> stored_quiz,
     extracted |-> extracted, quiz_data |-> quiz_data,
     quiz_answers |-> quiz_answers, quiz_submitted |-> quiz_submitted,
     quiz_saved_to_memory |-> quiz_saved_to_memory, report |-> report,
     quiz_scores |-> quiz_scores, weak_areas |-> weak_areas,
     topics_explained |-> topics_explained, strengths |-> strengths,
     revision_suggestions |-> revision_suggestions,
     explanation_generated |-> explanation_generated,
     quiz_generated |-> quiz_generated, fault |-> fault, pc |-> pc]

\* the process turns to the other session: st.session_state is now that
\* session's, and memory and chains are the objects stored in it
switch_session ==
    /\ peer' = SessionState
    /\ current_topic' = peer.current_topic
    /\ stored_quiz' = peer.stored_quiz
    /\ extracted' = peer.extracted
    /\ quiz_data' = peer.quiz_data
    /\ quiz_answers' = peer.quiz_answers
    /\ quiz_submitted' = peer.quiz_submitted
    /\ quiz_saved_to_memory' = peer.quiz_saved_to_memory
    /\ report' = peer.report
    /\ quiz_scores' = peer.quiz_scores
    /\ weak_areas' = peer.weak_areas
    /\ topics_explained' = peer.topics_explained
    /\ strengths' = peer.strengths
    /\ revision_suggestions' = peer.revision_suggestions
    /\ explanation_generated' = peer.explanation_generated
    /\ quiz_generated' = peer.quiz_generated
    /\ fault' = peer.fault
    /\ pc' = peer.pc
    /\ UNCHANGED <<document_loads, blocks>>

\* the text chains.generate_quiz returns in this specification
SharedTexts == {QuizText(<<McqPlain>>, 1)}

\* the letter a learner moves the radio to in this specification
SharedLetters == { <<"B">> }

NextSessions ==
    \/ switch_session
    \/ \E topic_input \in Topics : learn_topic(topic_input)
    \/ generate_explanation
    \/ \E quiz \in SharedTexts : generate_quiz(quiz)
    \/ \E quiz \in SharedTexts : regenerate_quiz(quiz)
    \/ display_quiz
    \/ display_results_below_form
    \/ \E key \in McqKeys(quiz_data), letter \in SharedLetters :
           select_option(key, letter)
    \/ submit_quiz
    \/ display_quiz_results
    \/ reset_progress

SpecSessions == InitSession /\ [][NextSessions]_vars

(***************************************************************************)
(* memory.py: the learning progress store, and the chains of chains.py     *)
(* that write explanations into it                                         *)
(***************************************************************************)
\* st.session_state.current_time, set once when the session starts
current_time == <<"t">>

\* the positions of topics whose name equals topic ignoring case
SameTopic(topics, topic) ==
    {j \in 1..Len(topics) : lower(topics[j].topic) = lower(topic)}

\* add_topic_explanation with the names compared as written
add_topic_explanation_case_sensitive(topics, topic, explanation) ==
    IF \A j \in 1..Len(topics) : topics[j].topic # topic
    THEN Append(topics, [topic |-> topic, explanation |-> explanation,
                         timestamp |-> current_time])
    ELSE LET j == Min({k \in 1..Len(topics) : topics[k].topic = topic})
         IN  [topics EXCEPT ![j].explanation = explanation,
                            ![j].timestamp = current_time]

\* topics_explained after add_topic_explanation(topic, explanation)
add_topic_explanation(topics, topic, explanation) ==
    IF SameTopic(topics, topic) = {}
    THEN Append(topics, [topic |-> topic, explanation |-> explanation,
                         timestamp |-> current_time])
    ELSE LET j == Min(SameTopic(topics, topic))
         IN  [topics EXCEPT ![j].explanation = explanation,
                            ![j].timestamp = current_time]

\* revision_suggestions after add_revision_suggestion(suggestion)
add_revision_suggestion(suggestions, suggestion) ==
    Append(suggestions, [suggestion |-> suggestion, timestamp |-> current_time])

\* unique_topics: the entries whose lowercased name no earlier entry has
RECURSIVE unique_topics(_, _)
unique_topics(topics, seen_topics) ==
    IF topics = <<>> THEN <<>>
    ELSE IF lower(Head(topics).topic) \in seen_topics
         THEN unique_topics(Tail(topics), seen_topics)
         ELSE <<Head(topics)>>
                  \o unique_topics(Tail(topics),
                                   seen_topics \cup {lower(Head(topics).topic)})

\* s[-n:]
LastOf(s, n) == SubSeq(s, IF Len(s) > n THEN Len(s) - n + 1 ELSE 1, Len(s))

\* the last entries the summary lists
RecentCount == 5

\* sum(q["percentage"] for q in quiz_scores), as a fraction
RECURSIVE sum_percentage(_)
sum_percentage(scores) ==
    IF scores = <<>> THEN [num |-> 0, den |-> 1]
    ELSE LET rest == sum_percentage(Tail(scores))
             p == Head(scores).percentage
         IN  [num |-> p.num * rest.den + rest.num * p.den, den |-> p.den * rest.den]

\* round(x, 1) of a fraction x >= 0 left as it is
round_1_exact(x) == x

\* round(x, 1) of a fraction x >= 0: the nearest tenth, a tie to the even one
round_1(x) ==
    LET tenths == (10 * x.num) \div x.den
        rest == (10 * x.num) % x.den
    IN  [num |-> IF 2 * rest > x.den \/ (2 * rest = x.den /\ tenths % 2 = 1)
                 THEN tenths + 1 ELSE tenths,
         den |-> 10]

\* get_learning_summary: the dict it returns, with the topics_explained it
\* leaves in the store
get_learning_summary(topics, scores, known) ==
    LET unique == unique_topics(topics, {})
        total_quizzes == Len(scores)
        avg_score == IF total_quizzes > 0
                     THEN [num |-> sum_percentage(scores).num,
                           den |-> sum_percentage(scores).den * total_quizzes]
                     ELSE [num |-> 0, den |-> 1]
    IN  [topics_explained |-> unique,
         quiz_scores |-> scores,
         total_topics_studied |-> Len(unique),
         total_quizzes_taken |-> total_quizzes,
         average_quiz_score |-> round_1(avg_score),
         weak_areas |-> known,
         recent_topics |-> [j \in 1..Len(LastOf(unique, RecentCount))
                               |-> LastOf(unique, RecentCount)[j].topic],
         recent_scores |-> [j \in 1..Len(LastOf(scores, RecentCount))
                               |-> LastOf(scores, RecentCount)[j].percentage]]

(***************************************************************************)
(* chains.py: generate_explanation and generate_quiz                       *)
(***************************************************************************)
\* what a provider does when asked: it raises, or it returns a text; Raises
\* is no str (its one element is not one character)
Raises == <<"raises">>

ResponseText == <<"o","k">>

\* HuggingFaceProvider.generate_text when the model generated nothing
ApologyText == <<"I"," ","a","p","o","l","o","g","i","z","e">>

\* HuggingFaceProvider.generate_text when the pipeline raised
ProviderErrorText == <<"E","r","r","o","r"," ","g","e","n","e","r","a","t","i","n","g",
                       " ","t","e","x","t">>

\* the text _format_fallback_quiz returns whatever the fallback wrote
FallbackQuizText == <<"Q","U","I","Z">>

ErrorPrefix == <<"E","r","r","o","r">>

\* f"Error generating explanation: {str(e)}", f"Error generating quiz: {str(e)}"
ExplanationErrorMsg == ErrorPrefix \o <<" ","g","e","n","e","r","a","t","i","n","g"," ",
                                        "e","x","p","l","a","n","a","t","i","o","n",":"," ","e">>

QuizErrorMsg == ErrorPrefix \o <<" ","g","e","n","e","r","a","t","i","n","g"," ",
                                 "q","u","i","z",":"," ","e">>

\* str.startswith
startswith(s, prefix) == Len(s) >= Len(prefix) /\ SubSeq(s, 1, Len(prefix)) = prefix

\* fallback_response and not fallback_response.startswith("Error")
fallback_usable(fallback) ==
    fallback # Raises /\ fallback # <<>> /\ ~startswith(fallback, ErrorPrefix)

\* generate_explanation recording whatever the fallback returned
generate_explanation_any_fallback(topics, topic, primary, fallback) ==
    IF primary # Raises
    THEN [returned |-> primary, fallback_asked |-> FALSE,
          topics_explained |-> add_topic_explanation(topics, topic, primary)]
    ELSE IF fallback # Raises
         THEN [returned |-> fallback, fallback_asked |-> TRUE,
               topics_explained |-> add_topic_explanation(topics, topic, fallback)]
         ELSE [returned |-> ExplanationErrorMsg, fallback_asked |-> TRUE,
               topics_explained |-> topics]

\* generate_explanation(topic): primary is what explanation_chain.run does,
\* fallback what generate_with_fallback does when it is asked
generate_explanation_chain(topics, topic, primary, fallback) ==
    IF primary # Raises
    THEN [returned |-> primary, fallback_asked |-> FALSE,
          topics_explained |-> add_topic_explanation(topics, topic, primary)]
    ELSE IF fallback_usable(fallback)
         THEN [returned |-> fallback, fallback_asked |-> TRUE,
               topics_explained |-> add_topic_explanation(topics, topic, fallback)]
         ELSE [returned |-> ExplanationErrorMsg, fallback_asked |-> TRUE,
               topics_explained |-> topics]

\* generate_quiz(topic): it writes nothing into the store
generate_quiz_chain(primary, fallback) ==
    IF primary # Raises
    THEN [returned |-> primary, fallback_asked |-> FALSE]
    ELSE IF fallback_usable(fallback)
         THEN [returned |-> FallbackQuizText, fallback_asked |-> TRUE]
         ELSE [returned |-> QuizErrorMsg, fallback_asked |-> TRUE]

(***************************************************************************)
(* SpecMemory: the store of one session under calls of its methods, with   *)
(* the sidebar buttons and the way to the explanation page                 *)
(***************************************************************************)
\* a call of a store method by itself leaves the pages of the session alone
session_unchanged ==
    UNCHANGED <<document_loads, blocks, current_topic, stored_quiz, extracted, quiz_data,
                quiz_answers, quiz_submitted, quiz_saved_to_memory, report,
                explanation_generated, quiz_generated, peer, fault, pc>>

\* chains.generate_explanation(topic) with the providers behaving as given
explain_topic(topic, primary, fallback) ==
    /\ topics_explained'
           = generate_explanation_chain(topics_explained, topic, primary, fallback)
                 .topics_explained
    /\ session_unchanged
    /\ UNCHANGED <<quiz_scores, weak_areas, strengths, revision_suggestions>>

\* memory.add_quiz_result(topic, score, total_questions, weak_areas)
record_quiz_result(topic, correct, total, areas) ==
    /\ LET saved == add_quiz_result(quiz_scores, weak_areas, topic, correct, total, areas)
       IN  /\ saved.fault = ""
           /\ quiz_scores' = saved.quiz_scores
           /\ weak_areas' = saved.weak_areas
    /\ session_unchanged
    /\ UNCHANGED progress_lists

\* chains.generate_revision_plan succeeding: memory.add_revision_suggestion
suggest_revision(suggestion) ==
    /\ revision_suggestions' = add_revision_suggestion(revision_suggestions, suggestion)
    /\ session_unchanged
    /\ UNCHANGED <<quiz_scores, weak_areas, topics_explained, strengths>>

\* the sidebar reading memory.get_learning_summary()
read_learning_summary ==
    /\ LET summary == get_learning_summary(topics_explained, quiz_scores, weak_areas)
       IN  /\ topics_explained' = summary.topics_explained
           /\ quiz_scores' = summary.quiz_scores
           /\ weak_areas' = summary.weak_areas
    /\ session_unchanged
    /\ UNCHANGED <<strengths, revision_suggestions>>

\* the topics of this specification, in the order a learner first studies them
StudyOrder == << <<"a">>, <<"b">>, <<"c">>, <<"d">>, <<"e">>, <<"f">> >>

\* the first topic written in capitals
CapitalTopic == <<"A">>

FallbackText == <<"f","b">>

\* generate_with_fallback: get_llm_provider() raises when the model cannot be
\* loaded; generate_text returns a text, its apology or its error text
FallbackOutcomes == {Raises, FallbackText, ApologyText, ProviderErrorText}

\* the topic is one studied before, or the next of StudyOrder
NextToStudy(topic) ==
    \/ SameTopic(topics_explained, topic) # {}
    \/ /\ Len(topics_explained) < Len(StudyOrder)
       /\ lower(topic) = StudyOrder[Len(topics_explained) + 1]

\* the calls of generate_explanation: the first topic with every behaviour of
\* the providers (the fallback matters only when the primary chain raises),
\* the later ones with the primary chain answering
ExplainCalls ==
    {<<topic, Raises, fallback>> :
        topic \in {StudyOrder[1], CapitalTopic}, fallback \in FallbackOutcomes}
    \cup {<<topic, ResponseText, Raises>> :
              topic \in {StudyOrder[k] : k \in 1..Len(StudyOrder)} \cup {CapitalTopic}}

\* the results of this specification: score, total_questions, weak_areas
QuizResults ==
    { <<1, 3, << <<"w","1">>, <<"w","2">> >> >>,
      <<1, 2, << <<"w","2">> >> >> }

RevisionText == <<"r">>

\* no more results and suggestions than these are recorded; a revision plan
\* is asked for on the results of a quiz
MaxResults == 6

MaxSuggestions == 1

InitMemory == InitSession

\* the store is written from the page of a topic: explanations on it, results
\* and revision plans below a generated explanation
NextMemory ==
    \/ \E call \in ExplainCalls :
           /\ pc = "topic"
           /\ NextToStudy(call[1])
           /\ explain_topic(call[1], call[2], call[3])
    \/ \E result \in QuizResults :
           /\ explanation_generated
           /\ Len(quiz_scores) < MaxResults
           /\ record_quiz_result(StudyOrder[1], result[1], result[2], result[3])
    \/ /\ explanation_generated
       /\ quiz_scores # <<>>
       /\ Len(revision_suggestions) < MaxSuggestions
       /\ suggest_revision(RevisionText)
    \/ read_learning_summary
    \/ \E topic_input \in Topics : learn_topic(topic_input)
    \/ generate_explanation
    \/ reset_progress
    \/ clear_session

SpecMemory == InitMemory /\ [][NextMemory]_vars

(***************************************************************************)
(* utils.py: load_document, called by two sessions of one process          *)
(***************************************************************************)
\* the positions of the dots of a file name
Dots(name) == {j \in 1..Len(name) : name[j] = "."}

\* os.path.splitext(name)[1] of a name without directories: from the last
\* dot on, unless only dots come before it
splitext_ext(name) ==
    IF Dots(name) = {} \/ \A j \in 1..(Max(Dots(name)) - 1) : name[j] = "."
    THEN <<>>
    ELSE SubSeq(name, Max(Dots(name)), Len(name))

\* the temporary name load_document uses for an extension ("" for none)
temp_name(file_extension) ==
    IF file_extension = <<".","p","d","f">> THEN "temp.pdf"
    ELSE IF file_extension = <<".","d","o","c","x">> THEN "temp.docx"
    ELSE ""

\* text += doc.page_content + "\n" for each document
RECURSIVE page_text(_)
page_text(documents) ==
    IF documents = <<>> THEN <<>>
    ELSE Head(documents) \o <<"\n">> \o page_text(Tail(documents))

\* what no step of load_document touches
session_and_store_unchanged ==
    UNCHANGED <<progress_lists, blocks, current_topic, stored_quiz, extracted, quiz_data,
                quiz_answers, quiz_submitted, quiz_saved_to_memory, report, quiz_scores,
                weak_areas, explanation_generated, quiz_generated, peer, fault, pc>>

\* load_document(file) entered: the extension decides the branch; any other
\* extension returns None at once
load_document_called(s, file) ==
    /\ loads[s].pc = "idle"
    /\ LET temp == temp_name(lower(splitext_ext(file.name)))
       IN  loads' = [loads EXCEPT ![s] =
                        IF temp = ""
                        THEN [pc |-> "returned", file |-> file, temp |-> "",
                              documents |-> <<>>, result |-> None]
                        ELSE [pc |-> "writing", file |-> file, temp |-> temp,
                              documents |-> <<>>, result |-> None]]
    /\ UNCHANGED temp_file
    /\ session_and_store_unchanged

\* with open(temp, "wb") as f: f.write(file.getbuffer())
write_temp_file(s) ==
    /\ loads[s].pc = "writing"
    /\ temp_file' = [temp_file EXCEPT ![loads[s].temp] =
                        [exists |-> TRUE, pages |-> loads[s].file.pages,
                         readable |-> loads[s].file.readable]]
    /\ loads' = [loads EXCEPT ![s].pc = "written"]
    /\ session_and_store_unchanged

\* open or write raises OSError: the file is as it was when open raised,
\* created and cut short when write raised; except returns None
write_temp_file_raises(s, opened) ==
    /\ loads[s].pc = "writing"
    /\ temp_file' = IF opened
                    THEN [temp_file EXCEPT ![loads[s].temp] =
                             [exists |-> TRUE, pages |-> <<>>, readable |-> FALSE]]
                    ELSE temp_file
    /\ loads' = [loads EXCEPT ![s].pc = "returned", ![s].result = None]
    /\ session_and_store_unchanged

\* loader = PyPDFLoader(temp); documents = loader.load(): the loader reads
\* what the name holds now, and raises when nothing is there or when it is
\* no document it can read; except returns None
load_temp_file(s) ==
    /\ loads[s].pc = "written"
    /\ loads' = [loads EXCEPT ![s] =
                    IF temp_file[loads[s].temp].exists /\ temp_file[loads[s].temp].readable
                    THEN [@ EXCEPT !.pc = "loaded",
                                   !.documents = temp_file[loads[s].temp].pages]
                    ELSE [@ EXCEPT !.pc = "returned", !.result = None]]
    /\ UNCHANGED temp_file
    /\ session_and_store_unchanged

\* os.remove(temp), which raises FileNotFoundError when the name is gone,
\* then the text of the documents is returned
remove_temp_file(s) ==
    /\ loads[s].pc = "loaded"
    /\ IF temp_file[loads[s].temp].exists
       THEN /\ temp_file' = [temp_file EXCEPT ![loads[s].temp] = Absent]
            /\ loads' = [loads EXCEPT ![s].pc = "returned",
                                      ![s].result = strip(page_text(loads[s].documents))]
       ELSE /\ temp_file' = temp_file
            /\ loads' = [loads EXCEPT ![s].pc = "returned", ![s].result = None]
    /\ session_and_store_unchanged

\* the files the two sessions upload: a PDF each, with different text, one
\* with its extension in capitals; a PDF no loader can read, a Word document
\* and a text file
Uploads ==
    [s \in Sessions |->
        {[name |-> IF s = 1 THEN <<"a",".","p","d","f">> ELSE <<"b",".","P","D","F">>,
          pages |-> IF s = 1 THEN << <<" ","x">> >> ELSE << <<"y">>, <<"z">> >>,
          readable |-> TRUE],
         [name |-> <<"c",".","p","d","f">>, pages |-> << <<"c">> >>, readable |-> FALSE],
         [name |-> <<"d",".","d","o","c","x">>, pages |-> << <<"d">> >>, readable |-> TRUE],
         [name |-> <<"n",".","t","x","t">>, pages |-> << <<"n">> >>, readable |-> TRUE]}]

InitDocuments == InitSession

NextDocuments ==
    \E s \in Sessions :
        \/ \E file \in Uploads[s] : load_document_called(s, file)
        \/ write_temp_file(s)
        \/ \E opened \in BOOLEAN : write_temp_file_raises(s, opened)
        \/ load_temp_file(s)
        \/ remove_temp_file(s)

SpecDocuments == InitDocuments /\ [][NextDocuments]_vars

(***************************************************************************)
(* Properties                                                              *)
(***************************************************************************)
Scored == pc = "results"

Parsed == pc # "generated"

\* the stored answer of an item, "" when it has none
AnswerOf(item) == Get(quiz_answers, item.key, <<>>)

Answered(item) == item.key \in DOMAIN quiz_answers

\* the int written in decimal by the digits s
RECURSIVE ParseNat(_)
ParseNat(s) ==
    IF s = <<>> THEN 0
    ELSE 10 * ParseNat(SubSeq(s, 1, Len(s) - 1))
             + (CHOOSE d \in 0..9 : DigitChars[d + 1] = s[Len(s)])

\* the n of a descriptor "Question n: ..."
QuestionNumber(area) ==
    ParseNat(SubSeq(area, 10, Min({j \in 10..Len(area) : area[j] = ":"}) - 1))

MissedNumbers ==
    [j \in 1..Len(report.weak_areas) |-> QuestionNumber(report.weak_areas[j])]

\* item number n is listed in the report's missed items
Missed(n) == \E j \in 1..Len(report.weak_areas) : MissedNumbers[j] = n

\* the grading rules as the specification words them
LetterRule(submitted, expected) == submitted = expected

SubstringRule(submitted, expected) ==
    \/ In(lower(submitted), lower(expected))
    \/ In(lower(expected), lower(submitted))

KeywordHits(submitted, expected) ==
    LET kws == split(lower(expected))
    IN  Cardinality({k \in 1..Len(kws) : In(kws[k], lower(submitted))})

KeywordRule(submitted, expected) ==
    2 * KeywordHits(submitted, expected) >= Len(split(lower(expected)))

Passes(item) ==
    CASE item.type = "mcq" -> LetterRule(AnswerOf(item), item.expected)
      [] item.type = "blank" -> SubstringRule(AnswerOf(item), item.expected)
      [] OTHER -> KeywordRule(AnswerOf(item), item.expected)

\* the elements of a set of integers in increasing order
RECURSIVE Ascending(_)
Ascending(S) ==
    IF S = {} THEN <<>> ELSE <<Min(S)>> \o Ascending(S \ {Min(S)})

\* C1: scoring a quiz against the empty answer set counts every item, and
\* grades every item whose expected answer is not the empty string incorrect:
\* when no expected answer is empty, correct is 0, the percentage is 0 and
\* the missed items hold one descriptor per item
C1_EmptyAnswerSetAllMissed ==
    (Scored /\ quiz_answers = EmptyDict) =>
        LET its == Items(quiz_data)
        IN  /\ report.total_questions = Len(its)
            /\ \A n \in 1..Len(its) : (its[n].expected # <<>>) => Missed(n)
            /\ (\A n \in 1..Len(its) : its[n].expected # <<>>) =>
                   /\ report.correct_answers = 0
                   /\ report.percentage.num = 0
                   /\ Len(report.weak_areas) = Len(its)

\* C2: a fill-in-the-blank item with a submitted string is graded correct
\* exactly when, after lowercasing both, the submission is a substring of
\* the expected answer or the expected answer is a substring of the submission
C2_BlankSubstringRule ==
    Scored =>
        LET its == Items(quiz_data)
        IN  \A n \in 1..Len(its) :
                (its[n].type = "blank" /\ Answered(its[n])) =>
                    (~Missed(n) <=> SubstringRule(quiz_answers[its[n].key], its[n].expected))

\* expected "resume", submitted "re": graded correct
C2_Witness ==
    /\ Scored
    /\ \E n \in 1..NumItems(quiz_data) :
           LET it == Items(quiz_data)[n]
           IN  /\ it.type = "blank"
               /\ it.expected = <<"r","e","s","u","m","e">>
               /\ Answered(it) /\ AnswerOf(it) = <<"r","e">>
               /\ ~Missed(n)

\* C3: a short answer item is graded correct exactly when at least half of
\* the whitespace-separated lowercased expected keywords, repeats counted
\* each time, occur as substrings of the lowercased submission; the same
\* holds for a single short answer item and for a list of two
C3_ShortKeywordRule ==
    Scored =>
        LET its == Items(quiz_data)
        IN  \A n \in 1..Len(its) :
                (its[n].type = "short") =>
                    (~Missed(n) <=> KeywordRule(AnswerOf(its[n]), its[n].expected))

\* four expected keywords with a repeat, exactly two of them hit: correct
C3_Witness ==
    /\ Scored
    /\ \E n \in 1..NumItems(quiz_data) :
           LET it == Items(quiz_data)[n]
               kws == split(lower(it.expected))
           IN  /\ it.type = "short"
               /\ Len(kws) = 4
               /\ \E a, b \in 1..4 : a # b /\ kws[a] = kws[b]
               /\ KeywordHits(AnswerOf(it), it.expected) = 2
               /\ ~Missed(n)

\* C4: a multiple choice item is graded correct exactly when a letter was
\* submitted and it is the same string as the stored correct option, case
\* included; no grading raises a fault
C4_McqLetterRule ==
    Scored =>
        /\ fault = ""
        /\ LET its == Items(quiz_data)
           IN  \A n \in 1..Len(its) :
                   (its[n].type = "mcq") =>
                       (~Missed(n) <=>
                            (Answered(its[n]) /\ quiz_answers[its[n].key] = its[n].expected))

\* the stored letter is "b", the submitted one "B": graded incorrect
C4_Witness ==
    /\ Scored
    /\ \E n \in 1..NumItems(quiz_data) :
           LET it == Items(quiz_data)[n]
           IN  /\ it.type = "mcq"
               /\ it.expected = <<"b">>
               /\ AnswerOf(it) = <<"B">>
               /\ Missed(n)

\* C5: total is the number of items of all three types, answered or not;
\* correct is the number of items that pass their rule; correct plus the
\* number of missed items is total; 0 <= correct <= total; the percentage
\* is 100 * correct / total when total > 0 and 0 otherwise
C5_Aggregate ==
    Scored =>
        LET its == Items(quiz_data)
            passing == {n \in 1..Len(its) : Passes(its[n])}
        IN  /\ report.total_questions = NumItems(quiz_data)
            /\ report.correct_answers = Cardinality(passing)
            /\ report.correct_answers + Len(report.weak_areas) = report.total_questions
            /\ 0 <= report.correct_answers
            /\ report.correct_answers <= report.total_questions
            /\ IF report.total_questions > 0
               THEN report.percentage.num * report.total_questions
                        = 100 * report.correct_answers * report.percentage.den
               ELSE report.percentage.num = 0

\* some items answered, some not, some correct, some not
C5_Witness ==
    /\ Scored
    /\ 0 < DictLen(quiz_answers)
    /\ DictLen(quiz_answers) < NumItems(quiz_data)
    /\ 0 < report.correct_answers
    /\ report.correct_answers < report.total_questions
    /\ quiz_data.short_answer.type = "dict"

\* C6: the missed items are the descriptors of exactly the items that fail
\* their rule, in the order MCQ, fill in the blank, short answer, each
\* numbered with the 1-based position of its item in that order
C6_MissedItemsInOrder ==
    Scored =>
        LET its == Items(quiz_data)
            failing == Ascending({n \in 1..Len(its) : ~Passes(its[n])})
        IN  /\ MissedNumbers = failing
            /\ \A j \in 1..Len(failing) :
                   report.weak_areas[j] = WeakArea(failing[j], its[failing[j]].question)
            /\ \A j \in 1..Len(MissedNumbers) :
                   /\ MissedNumbers[j] \in 1..report.total_questions
                   /\ (j > 1) => MissedNumbers[j - 1] < MissedNumbers[j]

\* a missed blank that follows two MCQs and a missed MCQ before it
C6_Witness ==
    /\ Scored
    /\ Len(quiz_data.mcq_questions) = 2
    /\ Missed(1)
    /\ Missed(3)
    /\ ~Missed(2)

\* C7: when every MCQ is answered with its stored letter, every blank with
\* exactly its expected answer and every short answer with the full expected
\* text, correct equals total, the percentage is 100, nothing is missed
AllExact ==
    \A n \in 1..NumItems(quiz_data) :
        LET it == Items(quiz_data)[n]
        IN  Answered(it) /\ quiz_answers[it.key] = it.expected

C7_AllExactFullScore ==
    (Scored /\ AllExact) =>
        /\ report.correct_answers = report.total_questions
        /\ report.weak_areas = <<>>
        /\ report.percentage.num = 100 * report.percentage.den

\* 7 of 7 on the quiz of 3 MCQs, 2 blanks and 2 short answers
C7_Witness ==
    /\ Scored
    /\ AllExact
    /\ Len(quiz_data.mcq_questions) = 3
    /\ Len(quiz_data.fill_blanks) = 2
    /\ Len(quiz_data.short_answer.items) = 2
    /\ report.correct_answers = 7
    /\ report.total_questions = 7

\* C8: the parsed quiz is the fallback quiz exactly when the three
\* extractions yield no item at all (so for a text without any marker), and
\* otherwise it is exactly the extracted items: a type that matched nothing
\* stays empty and no canned item is mixed in
C8_FallbackOnlyWhenEmpty ==
    Parsed =>
        /\ (quiz_data = create_fallback_quiz_data) <=> (NumItems(extracted) = 0)
        /\ (NumItems(extracted) > 0) => quiz_data = extracted
        /\ (\A i \in 1..Len(blocks) : blocks[i].kind = "text") =>
               quiz_data = create_fallback_quiz_data
        /\ extracted.raw_text = stored_quiz

\* MCQs were extracted and no blank, no short answer: taken as they are
C8_Witness ==
    /\ Parsed
    /\ Len(extracted.mcq_questions) = 2
    /\ quiz_data.mcq_questions = extracted.mcq_questions
    /\ quiz_data.fill_blanks = <<>>
    /\ ~ShortTruthy(quiz_data.short_answer)

\* C9: a parsed quiz has at least one item, so a scored quiz has
\* total_questions >= 1, add_quiz_result never divides by zero and every
\* recorded quiz result has total_questions >= 1
C9_QuizNeverEmpty ==
    /\ Parsed => NumItems(quiz_data) >= 1
    /\ fault = ""
    /\ Scored => report.total_questions >= 1
    /\ \A j \in 1..Len(quiz_scores) : quiz_scores[j].total_questions >= 1

\* a text without items was parsed, answered, scored and recorded
C9_Witness ==
    /\ Scored
    /\ NumItems(extracted) = 0
    /\ report.total_questions = 7
    /\ Len(quiz_scores) = 1
    /\ quiz_scores[1].total_questions = 7

\* C10: a quiz text of k >= 1 MCQ blocks of the documented form parses to
\* exactly k MCQ items in source order, item i with the question, the four
\* options and the answer letter of block i
C10_DocumentedMcqBlocksParsed ==
    (Parsed /\ \A i \in 1..Len(blocks) : blocks[i].kind = "mcq") =>
        quiz_data.mcq_questions =
            [i \in 1..Len(blocks) |->
                [question |-> str(i) \o <<"."," ">> \o blocks[i].question,
                 options |-> blocks[i].options,
                 correct |-> blocks[i].answer]]

\* the positions of the blocks of a kind in the text, in increasing order
BlocksOfKind(kind) == Ascending({i \in 1..Len(blocks) : blocks[i].kind = kind})

\* s ends with t
EndsWith(s, t) ==
    /\ Len(s) >= Len(t)
    /\ SubSeq(s, Len(s) - Len(t) + 1, Len(s)) = t

\* C11: in a text of MCQ blocks of which some lack an option line or the
\* answer line, the extracted MCQ items are exactly the well-formed blocks,
\* in order, each with its own question, options and answer letter only
C11_MalformedBlocksDropped ==
    (Parsed /\ \A i \in 1..Len(blocks) : blocks[i].kind \in {"mcq", "mcq_malformed"}) =>
        LET good == BlocksOfKind("mcq")
        IN  extracted.mcq_questions =
                [j \in 1..Len(good) |->
                    [question |-> str(good[j]) \o <<"."," ">> \o blocks[good[j]].question,
                     options |-> blocks[good[j]].options,
                     correct |-> blocks[good[j]].answer]]

AnswerLetters == {"A","B","C","D"}

LowerAnswerLetters == {"a","b","c","d"}

\* C12 as stated: an otherwise well-formed MCQ block is extracted whatever
\* letter its answer line names, the letter stored as written
C12_AnyLetterStored ==
    Parsed =>
        \A i \in 1..Len(blocks) :
            (blocks[i].kind = "mcq_letter") =>
                \E j \in 1..Len(extracted.mcq_questions) :
                    /\ EndsWith(extracted.mcq_questions[j].question, blocks[i].question)
                    /\ extracted.mcq_questions[j].correct = blocks[i].answer

\* C12 as amended: every stored answer letter is one of A to D or a to d; a
\* well-formed block naming another letter yields no item; a lower-case
\* letter is stored only when no block matched case-sensitively; an item
\* with a lower-case letter is graded incorrect whatever is selected, and
\* no fault is raised
C12_LetterOutsideRejected ==
    /\ fault = ""
    /\ Parsed =>
        LET ms == extracted.mcq_questions
        IN  /\ \A j \in 1..Len(ms) :
                   /\ Len(ms[j].correct) = 1
                   /\ ms[j].correct[1] \in AnswerLetters \cup LowerAnswerLetters
            /\ \A i \in 1..Len(blocks) :
                   (/\ blocks[i].kind = "mcq_letter"
                    /\ blocks[i].answer[1] \notin AnswerLetters \cup LowerAnswerLetters) =>
                       \A j \in 1..Len(ms) :
                           ~EndsWith(ms[j].question, blocks[i].question)
            /\ (\E j \in 1..Len(ms) : ms[j].correct[1] \in LowerAnswerLetters) =>
                   findall(mcq_pattern, stored_quiz, FALSE) = <<>>
    /\ Scored =>
        \A n \in 1..Len(quiz_data.mcq_questions) :
            (quiz_data.mcq_questions[n].correct[1] \in LowerAnswerLetters) => Missed(n)

\* the block naming E gave no item, the block naming b was extracted with
\* "b", answered "B" and graded incorrect
C12_Witness ==
    /\ Scored
    /\ blocks = <<McqLetterE, McqLetterLower>>
    /\ Len(quiz_data.mcq_questions) = 1
    /\ quiz_data.mcq_questions[1].correct = <<"b">>
    /\ quiz_answers[McqKey(0)] = <<"B">>
    /\ Missed(1)

\* C13: when the text holds at least one entry in the hint form, the fill
\* in the blank items are the hint-form entries alone, in order; the simple
\* form entries are extracted only when there is no hint-form entry
C13_OneBlankPattern ==
    Parsed =>
        LET hinted == BlocksOfKind("blank")
            simple == BlocksOfKind("blank_simple")
            used == IF hinted # <<>> THEN hinted ELSE simple
            found == extracted.fill_blanks
        IN  /\ Len(found) = Len(used)
            /\ \A j \in 1..Len(used) :
                   /\ found[j].answer = blocks[used[j]].answer
                   /\ EndsWith(found[j].question, blocks[used[j]].question)

\* a hint-form and a simple-form entry in one text: one item, the hinted one
C13_Witness ==
    /\ Parsed
    /\ blocks = <<BlankSimple, BlankHinted>>
    /\ Len(extracted.fill_blanks) = 1
    /\ extracted.fill_blanks[1].answer = BlankHinted.answer

\* C14: a short answer section of n >= 1 well-formed entries parses to its
\* first min(n, 2) entries, in order, and no parsed quiz holds more than two
\* short answer items
C14_ShortSectionFirstTwo ==
    Parsed =>
        /\ Len(quiz_data.short_answer.items) <= 2
        /\ LET sections == BlocksOfKind("short_section")
           IN  (Len(sections) = 1) =>
                   LET entries == blocks[sections[1]].entries
                       k == Min({Len(entries), 2})
                       found == extracted.short_answer.items
                   IN  /\ Len(found) = k
                       /\ \A j \in 1..k :
                              /\ found[j].expected = entries[j].answer
                              /\ EndsWith(found[j].question, entries[j].question)

(***************************************************************************)
(* Claims about the pages of a session                                     *)
(***************************************************************************)
\* C15: when Regenerate Quiz puts a new text in place of the stored quiz, the
\* stored quiz is one of the newly generated texts, the parsed form of the
\* old quiz is gone, the stored answers are empty and the submission flag is
\* off: nothing of the old quiz is carried over.
C15_RegenerateReplacesWholesale ==
    [][(quiz_generated /\ quiz_generated' /\ stored_quiz' # stored_quiz)
          => /\ stored_quiz' \in GeneratedTexts
             /\ quiz_data' = NoQuiz
             /\ quiz_answers' = EmptyDict
             /\ quiz_submitted' = FALSE]_vars

\* the state right after Regenerate Quiz was clicked on the results of a
\* submitted and saved one-question quiz
C15_Witness ==
    /\ pc = "generated"
    /\ stored_quiz = QuizTextTwoShort
    /\ quiz_saved_to_memory
    /\ Len(quiz_scores) = 1
    /\ quiz_scores[1].total_questions = 1
    /\ quiz_answers = EmptyDict
    /\ ~quiz_submitted
    /\ quiz_data = NoQuiz

\* C16: the score report of a submission is computed once and stays as it is
\* until the next submission: while the results stay on the page, whatever
\* the learner selects or types, the correct count, total, percentage and
\* missed items do not change.
C16_ReportFixedUntilResubmit ==
    [][(pc = "results" /\ pc' = "results") => report' = report]_vars

\* the steps in which display_quiz_results runs on the answers as they are
\* stored: the rerun after Submit Quiz, a form rendered while quiz_submitted
\* is on, and the rerun of a button of the results page
ScoringStep ==
    /\ pc \in {"submitted", "resubmitted", "results"}
    /\ pc' = "results"
    /\ quiz_answers' = quiz_answers

ScoringKeys == {Items(quiz_data)[n].key : n \in 1..NumItems(quiz_data)}

\* the keys under which the widgets of the quiz form store their answers
WidgetKeys == McqKeys(quiz_data) \cup BlankKeys(quiz_data) \cup ShortKeys(quiz_data)

\* C18: for every parsed quiz the keys the form stores answers under are the
\* keys scoring reads, one key per item and no key for two items, the stored
\* answers are stored under these keys, and a step that stores the answer of
\* one item leaves the stored answer of every other item as it was.
C18_ItemKeysStable ==
    /\ [](Parsed => /\ WidgetKeys = ScoringKeys
                    /\ Cardinality(ScoringKeys) = NumItems(quiz_data)
                    /\ DOMAIN quiz_answers \subseteq ScoringKeys)
    /\ [][(pc = "displayed" /\ pc' = "displayed" /\ quiz_answers' # quiz_answers)
            => \E key \in WidgetKeys :
                   /\ key \in DOMAIN quiz_answers'
                   /\ DOMAIN quiz_answers' = DOMAIN quiz_answers \cup {key}
                   /\ \A k \in DOMAIN quiz_answers \ {key} :
                          quiz_answers'[k] = quiz_answers[k]]_vars

\* a quiz of an MCQ and a blank whose answers were both stored by the learner
C18_Witness ==
    /\ pc = "displayed"
    /\ Len(quiz_data.mcq_questions) = 1
    /\ Len(quiz_data.fill_blanks) = 1
    /\ Get(quiz_answers, McqKey(0), <<>>) = <<"C">>
    /\ Get(quiz_answers, BlankKey(0), <<>>) = <<"t","o">>

\* C19: two sessions served by one process and interleaved in any order each
\* own their quiz, answers, flags and learning progress: a step either is an
\* action of the running session, which leaves all of these of the other
\* session as they are, or is the process turning to the other session, which
\* changes nothing in either.
C19_SessionsIndependent ==
    [][\/ peer' = peer
       \/ (peer' = SessionState /\ SessionState' = peer)]_vars

\* the running session shows the saved results of its quiz while the other
\* session, which had submitted and saved a quiz too, has reset its progress
C19_Witness ==
    /\ pc = "results"
    /\ quiz_saved_to_memory
    /\ Len(quiz_scores) = 1
    /\ peer.pc = "topic"
    /\ peer.quiz_saved_to_memory
    /\ peer.quiz_submitted
    /\ peer.quiz_scores = <<>>

\* C20: every accepted submission, a Submit Quiz that turns quiz_submitted
\* on, appends exactly one quiz result to the learning progress: the results
\* shown after it append one result, and no other step appends any.
C20_OneResultPerSubmission ==
    [][/\ (pc = "submitted" /\ pc' = "results")
           => Len(quiz_scores') = Len(quiz_scores) + 1
       /\ Len(quiz_scores') > Len(quiz_scores)
           => (pc = "submitted" /\ Len(quiz_scores') = Len(quiz_scores) + 1)]_vars


\* C21: whenever a quiz text has just been stored and is about to be shown,
\* after Generate Quiz or Regenerate Quiz, also when the learner changed
\* topic, went Back to Home or reset progress before, the submission flag is
\* off and the answer set is empty, and results are never shown below a form
\* that the learner has not submitted.
C21_NewQuizStartsClean ==
    /\ pc = "generated" => (~quiz_submitted /\ quiz_answers = EmptyDict)
    /\ pc # "resubmitted"

\* C22: quiz_submitted is turned on only by a Submit Quiz taken with at least
\* one stored answer; from a quiz form whose answer set is empty no step, a
\* Submit Quiz click included, turns the flag on, computes a report, shows
\* results or records a quiz result, and the click leaves the stored quiz and
\* the answer set as they are.
C22_EmptySubmitRejected ==
    [][/\ (~quiz_submitted /\ quiz_submitted')
           => (pc = "displayed" /\ DictLen(quiz_answers) > 0)
       /\ (pc = "displayed" /\ DictLen(quiz_answers) = 0)
           => /\ ~quiz_submitted'
              /\ pc' \notin {"submitted", "resubmitted", "results"}
              /\ report' = NoReport
              /\ Len(quiz_scores') <= Len(quiz_scores)
              /\ pc' = "displayed" /\ quiz_answers' = quiz_answers
                     => stored_quiz' = stored_quiz]_vars

\* the form of a quiz of two short answers with nothing typed, shown after an
\* earlier quiz was submitted and saved
C22_Witness ==
    /\ pc = "displayed"
    /\ ~quiz_submitted
    /\ quiz_answers = EmptyDict
    /\ stored_quiz = QuizTextTwoShort
    /\ Len(quiz_scores) = 1

\* C23: in every state of a session quiz_generated implies that the
\* explanation was generated and that a quiz text is stored, and every step
\* that turns explanation_generated off or removes the stored quiz turns
\* quiz_generated off as well.
C23_QuizFlagImpliesExplanationAndText ==
    /\ [](quiz_generated => (explanation_generated /\ stored_quiz # NoStoredQuiz))
    /\ [][(\/ explanation_generated /\ ~explanation_generated'
           \/ stored_quiz # NoStoredQuiz /\ stored_quiz' = NoStoredQuiz)
              => ~quiz_generated']_vars

\* the home page reached by Back to Home from the results of a quiz
C23_Witness ==
    /\ pc = "home"
    /\ ~quiz_generated
    /\ ~explanation_generated
    /\ stored_quiz = NoStoredQuiz
    /\ quiz_submitted
    /\ Len(quiz_scores) = 1

\* the topic names and explanation texts asked of add_topic_explanation
TopicInputs == {StudyOrder[k] : k \in 1..Len(StudyOrder)} \cup {CapitalTopic}

ExplanationInputs == {ResponseText, FallbackText, ApologyText}

\* no two entries of topics have names that are equal ignoring case
NoTwoSameTopics(topics) ==
    \A j, k \in 1..Len(topics) :
        lower(topics[j].topic) = lower(topics[k].topic) => j = k

\* C24: topics_explained never holds two entries whose names are equal
\* ignoring case. Adding a topic whose lowercased name is present leaves the
\* number, order and names of the entries as they are and replaces only the
\* explanation and timestamp of that entry; adding a new name appends exactly
\* one entry at the end. Every step that changes a non-empty topics_explained
\* is one of these two.
C24_TopicsUniqueIgnoringCase ==
    /\ [](/\ NoTwoSameTopics(topics_explained)
          /\ \A topic \in TopicInputs, text \in ExplanationInputs :
                 LET after == add_topic_explanation(topics_explained, topic, text)
                     same == {j \in 1..Len(topics_explained) :
                                 lower(topics_explained[j].topic) = lower(topic)}
                 IN  IF same # {}
                     THEN /\ Len(after) = Len(topics_explained)
                          /\ \A j \in 1..Len(after) :
                                 /\ after[j].topic = topics_explained[j].topic
                                 /\ j \notin same => after[j] = topics_explained[j]
                                 /\ j \in same => /\ after[j].explanation = text
                                                  /\ after[j].timestamp = current_time
                     ELSE /\ Len(after) = Len(topics_explained) + 1
                          /\ SubSeq(after, 1, Len(topics_explained)) = topics_explained
                          /\ after[Len(after)] = [topic |-> topic, explanation |-> text,
                                                  timestamp |-> current_time])
    /\ [][(topics_explained' # topics_explained /\ topics_explained' # <<>>)
             => \/ /\ Len(topics_explained') = Len(topics_explained)
                   /\ \E j \in 1..Len(topics_explained) :
                          topics_explained'
                              = [topics_explained EXCEPT
                                     ![j].explanation = topics_explained'[j].explanation,
                                     ![j].timestamp = topics_explained'[j].timestamp]
                \/ /\ Len(topics_explained') = Len(topics_explained) + 1
                   /\ SubSeq(topics_explained', 1, Len(topics_explained))
                          = topics_explained
                   /\ NoTwoSameTopics(topics_explained')]_vars

\* the first topic was entered in capitals and explained by the fallback
\* provider, a second topic follows it: asking for the first in small letters
\* is the case of a name that is present
C24_Witness ==
    /\ Len(topics_explained) = 2
    /\ topics_explained[1].topic = CapitalTopic
    /\ topics_explained[1].explanation = FallbackText

\* the weak areas of the records of scores, one after the other
RECURSIVE ReportedAreas(_)
ReportedAreas(scores) ==
    IF scores = <<>> THEN <<>>
    ELSE Head(scores).weak_areas \o ReportedAreas(Tail(scores))

\* the positions of s that hold the first occurrence of their element
FirstOccurrences(s) == {j \in 1..Len(s) : \A k \in 1..(j - 1) : s[k] # s[j]}

\* s is a subsequence of t that takes exactly the positions of picked
TakenFrom(s, t, picked) ==
    /\ Len(s) = Cardinality(picked)
    /\ \A j \in 1..Len(s) :
           \E p \in picked : /\ s[j] = t[p]
                             /\ Cardinality({q \in picked : q < p}) = j - 1

\* C25: every add_quiz_result call appends exactly one record to quiz_scores
\* and leaves the earlier records as they were; the cumulative weak_areas
\* list holds every weak area reported by the records since the last reset,
\* each exactly once, in the order of first report; a step that is not a
\* reset shrinks neither quiz_scores nor weak_areas.
C25_ResultsAppendWeakAreasAccumulate ==
    /\ [](/\ TakenFrom(weak_areas, ReportedAreas(quiz_scores),
                       FirstOccurrences(ReportedAreas(quiz_scores)))
          /\ \A result \in QuizResults :
                 LET saved == add_quiz_result(quiz_scores, weak_areas, StudyOrder[1],
                                              result[1], result[2], result[3])
                 IN  /\ saved.fault = ""
                     /\ Len(saved.quiz_scores) = Len(quiz_scores) + 1
                     /\ SubSeq(saved.quiz_scores, 1, Len(quiz_scores)) = quiz_scores
                     /\ saved.quiz_scores[Len(saved.quiz_scores)].score = result[1]
                     /\ saved.quiz_scores[Len(saved.quiz_scores)].total_questions
                            = result[2]
                     /\ saved.quiz_scores[Len(saved.quiz_scores)].weak_areas = result[3])
    /\ [][\/ quiz_scores' = <<>> /\ weak_areas' = <<>>
          \/ /\ Len(quiz_scores') \in {Len(quiz_scores), Len(quiz_scores) + 1}
             /\ SubSeq(quiz_scores', 1, Len(quiz_scores)) = quiz_scores
             /\ Len(weak_areas') >= Len(weak_areas)
             /\ SubSeq(weak_areas', 1, Len(weak_areas)) = weak_areas]_vars

\* three results recorded, the second reporting an area the first reported
\* already and the areas first reported in the order w2, w1
C25_Witness ==
    /\ Len(quiz_scores) = 3
    /\ quiz_scores[1].weak_areas = << <<"w","2">> >>
    /\ quiz_scores[2].weak_areas = << <<"w","1">>, <<"w","2">> >>
    /\ weak_areas = << <<"w","2">>, <<"w","1">> >>

\* the sum of 100 * score / total_questions over the first k records of
\* scores, as a fraction
RECURSIVE PercentSum(_, _)
PercentSum(scores, k) ==
    IF k = 0 THEN [num |-> 0, den |-> 1]
    ELSE LET before == PercentSum(scores, k - 1)
         IN  [num |-> before.num * scores[k].total_questions
                          + 100 * scores[k].score * before.den,
              den |-> before.den * scores[k].total_questions]

\* the fractions a and b are the same number
SameNumber(a, b) == a.num * b.den = b.num * a.den

\* what the summary of the store of this state reports beside the average
SummaryListsRight(summary) ==
    LET count == Len(quiz_scores)
        shown == IF count < RecentCount THEN count ELSE RecentCount
        names == Len(topics_explained)
        listed == IF names < RecentCount THEN names ELSE RecentCount
    IN  /\ NoTwoSameTopics(topics_explained)
        /\ summary.total_quizzes_taken = count
        /\ summary.total_topics_studied = names
        /\ Len(summary.recent_scores) = shown
        /\ \A j \in 1..shown :
               SameNumber(summary.recent_scores[j],
                          [num |-> 100 * quiz_scores[count - shown + j].score,
                           den |-> quiz_scores[count - shown + j].total_questions])
        /\ Len(summary.recent_topics) = listed
        /\ \A j \in 1..listed :
               summary.recent_topics[j] = topics_explained[names - listed + j].topic
        /\ summary.quiz_scores = quiz_scores
        /\ summary.weak_areas = weak_areas

\* C26: in every state get_learning_summary reports total_quizzes_taken equal
\* to the number of recorded results, average_quiz_score equal to the mean of
\* their percentages rounded to one decimal place (0 when none is recorded),
\* recent_scores equal to the percentages of the last min(5, count) results in
\* chronological order and recent_topics equal to the names of the last
\* min(5, count) distinct topics; the call changes no quiz result and no weak
\* area.
C26_SummaryAverageRounded ==
    LET summary == get_learning_summary(topics_explained, quiz_scores, weak_areas)
        count == Len(quiz_scores)
        total == PercentSum(quiz_scores, count)
    IN  /\ SummaryListsRight(summary)
        /\ IF count = 0
           THEN summary.average_quiz_score.num = 0
           ELSE \E tenths \in 0..1000 :
                    /\ SameNumber(summary.average_quiz_score, [num |-> tenths, den |-> 10])
                    /\ 2 * (tenths * total.den * count - 10 * total.num) <= total.den * count
                    /\ 2 * (10 * total.num - tenths * total.den * count) <= total.den * count

\* C26 as stated: the reported average is the mean of the percentages itself
C26_SummaryAverageIsMean ==
    LET summary == get_learning_summary(topics_explained, quiz_scores, weak_areas)
        count == Len(quiz_scores)
        total == PercentSum(quiz_scores, count)
    IN  /\ SummaryListsRight(summary)
        /\ IF count = 0
           THEN summary.average_quiz_score.num = 0
           ELSE SameNumber(summary.average_quiz_score,
                           [num |-> total.num, den |-> total.den * count])

\* six results and six topics in the store, more than the summary lists, with
\* a mean that is no multiple of a tenth
C26_Witness ==
    /\ Len(quiz_scores) = RecentCount + 1
    /\ Len(topics_explained) = RecentCount + 1
    /\ quiz_scores[1].total_questions = 3
    /\ quiz_scores[RecentCount + 1].total_questions = 2
    /\ topics_explained[1].topic = CapitalTopic

\* the five lists of the learning progress
learning_progress ==
    <<topics_explained, quiz_scores, weak_areas, strengths, revision_suggestions>>

\* C27: Reset Progress returns the learning progress to its initial state
\* from any state: after the step the five lists are empty and
\* get_learning_summary reports 0 topics, 0 quizzes, average 0 and empty
\* recent lists; a step that empties one non-empty list empties all five.
\* Clear Session leaves the five lists as they are.
C27_ResetEmptiesClearKeeps ==
    [][/\ (\/ reset_progress
           \/ \E j \in 1..5 : learning_progress[j] # <<>> /\ learning_progress'[j] = <<>>)
          => /\ learning_progress' = <<(<<>>), (<<>>), (<<>>), (<<>>), (<<>>)>>
             /\ learning_progress' = <<initialize_session_state.topics_explained,
                                       initialize_session_state.quiz_scores,
                                       initialize_session_state.weak_areas,
                                       initialize_session_state.strengths,
                                       initialize_session_state.revision_suggestions>>
             /\ LET summary == get_learning_summary(topics_explained', quiz_scores',
                                                    weak_areas')
                IN  /\ summary.total_topics_studied = 0
                    /\ summary.total_quizzes_taken = 0
                    /\ summary.average_quiz_score.num = 0
                    /\ summary.recent_topics = <<>>
                    /\ summary.recent_scores = <<>>
                    /\ summary.weak_areas = <<>>
       /\ clear_session => learning_progress' = learning_progress]_vars

\* the explanation page with topics, results, weak areas and a suggestion in
\* the store: Clear Session and Reset Progress both act on it
C27_Witness ==
    /\ pc = "topic"
    /\ explanation_generated
    /\ Len(topics_explained) = 2
    /\ Len(quiz_scores) = 2
    /\ Len(weak_areas) = 2
    /\ Len(revision_suggestions) = 1

\* what generate_with_fallback may hand back to a chain: the behaviours of the
\* provider, and the empty text, which this provider replaces by its apology
FallbackReturns == FallbackOutcomes \cup {<<>>}

\* "Error generating "
ErrorGenerating == <<"E","r","r","o","r"," ","g","e","n","e","r","a","t","i","n","g"," ">>

\* the first characters of s are those of p
BeginsWith(s, p) == Len(s) >= Len(p) /\ \A i \in 1..Len(p) : s[i] = p[i]

\* the explanation stored for topic in topics
ExplanationOf(topics, topic) ==
    topics[CHOOSE j \in 1..Len(topics) : lower(topics[j].topic) = lower(topic)].explanation

\* C28: generate_quiz and generate_explanation never raise. When the primary
\* chain succeeds its response is returned and the fallback provider is not
\* asked; only when it fails is the fallback asked, and its output counts only
\* if it is a non-empty text that does not start with "Error"; otherwise the
\* returned value is the error message "Error generating ..." of the primary
\* failure. generate_explanation stores an explanation for the topic on the
\* two success outcomes and leaves the store alone for the error message; no
\* stored explanation starts with "Error".
C28_ChainsFallBackInOrder ==
    /\ \A j \in 1..Len(topics_explained) :
           ~BeginsWith(topics_explained[j].explanation, <<"E","r","r","o","r">>)
    /\ \A topic \in {StudyOrder[1], CapitalTopic}, primary \in {Raises, ResponseText},
          fallback \in FallbackReturns :
           LET explained == generate_explanation_chain(topics_explained, topic,
                                                       primary, fallback)
               quizzed == generate_quiz_chain(primary, fallback)
               counts == /\ fallback # Raises
                         /\ Len(fallback) > 0
                         /\ ~BeginsWith(fallback, <<"E","r","r","o","r">>)
           IN  /\ explained.returned # Raises
               /\ quizzed.returned # Raises
               /\ explained.fallback_asked = (primary = Raises)
               /\ quizzed.fallback_asked = (primary = Raises)
               /\ primary # Raises =>
                      /\ explained.returned = primary
                      /\ quizzed.returned = primary
                      /\ ExplanationOf(explained.topics_explained, topic) = primary
               /\ (primary = Raises /\ counts) =>
                      /\ explained.returned = fallback
                      /\ quizzed.returned = FallbackQuizText
                      /\ ExplanationOf(explained.topics_explained, topic) = fallback
               /\ (primary = Raises /\ ~counts) =>
                      /\ explained.returned = ExplanationErrorMsg
                      /\ quizzed.returned = QuizErrorMsg
                      /\ BeginsWith(explained.returned, ErrorGenerating)
                      /\ BeginsWith(quizzed.returned, ErrorGenerating)
                      /\ explained.topics_explained = topics_explained

\* the primary chain failed and the fallback provider returned its apology,
\* which was stored as the explanation of the first topic
C28_Witness ==
    /\ Len(topics_explained) = 1
    /\ topics_explained[1].topic = StudyOrder[1]
    /\ topics_explained[1].explanation = ApologyText

\* the text load_document extracts from a file read by itself
TextOf(file) == strip(page_text(file.pages))

\* C29: when two sessions run load_document at the same time on two
\* different files of the same type, in any interleaving of their write, load
\* and remove steps, each call returns the text of its own file or None, never
\* text of the file of the other session.
C29_LoadReturnsOwnTextOrNone ==
    \A s \in Sessions :
        loads[s].pc = "returned" =>
            loads[s].result \in {None, TextOf(loads[s].file)}

\* C30: when load_document has returned in a process in which no other call
\* runs, the temporary file it wrote is removed, whatever the path: text
\* extracted, unsupported extension, or an error while writing or loading;
\* and on the error paths the result is None.
C30_TempFileRemovedOnReturn ==
    \A s \in Sessions :
        (loads[s].pc = "returned" /\ \A o \in Sessions \ {s} : loads[o].pc = "idle")
            => /\ \A name \in TempNames : ~temp_file[name].exists
               /\ (loads[s].temp = "" \/ ~loads[s].file.readable)
                      => loads[s].result = None
====
